---- MODULE Spec2Model ----
(***************************************************************************)
(* Symmetric_Polynomials: polynomials stored as maps                       *)
(* (degree, exponent) -> coefficient, the exponent types with their        *)
(* relation-aware arithmetic, and the generic decomposition engine         *)
(* (Polynomial_Basis) with its two generator families.                     *)
(*                                                                         *)
(* Exponent vectors are sequences; slot i of the C++ vector is slot i+1.   *)
(* A polynomial is a function whose domain is its set of keys <<d, e>>.    *)
(* Scalars are integers (scl_t = int64_t; the bounds keep every value far  *)
(* from the width).                                                        *)
(***************************************************************************)
EXTENDS Bags, FiniteSets, Integers, Sequences, TLC

VARIABLES
    kind,           \* which basis object runs: "sym" or "hib"
    n,              \* its constructor argument
    input,          \* the polynomial handed to the forward operator
    rel,            \* the polynomial in the generators (a relation, a square, or one or two terms
                    \* in e_1..e_n) input was expanded from, or the zero polynomial
    a,              \* the forward operator's by-value parameter: what is left to decompose
    decomposition,  \* the forward operator's result under construction
    visited,        \* per finished iteration: the highest key of a and its coefficient, the tuple
                    \* find_exponent returned, coeff, and the highest term of coeff * product
    pc,             \* position: "loop", "returned", "verified", "failed", "ub"
    iteration,      \* how many iterations of the forward loop have been entered
    q,              \* backward expansion of the returned decomposition
    pa,             \* algebra machine: the polynomial p the methods are called on
    last,           \* algebra machine: the call in progress, its operands and result
    ex,             \* exponent machine: the half-idempotent exponent vector operated on
    elast,          \* exponent machine: the operator call in progress, its operands and result
    task,           \* construction machine: the routine that runs, its arguments and its position
    cit,            \* construction machine: the iterator of the (outer) range-for over combinations
    cit2,           \* construction machine: the iterator of the inner range-for (create_generator)
    scratch,        \* construction machine: the scratch monomial mono of the routine
    tpoly,          \* construction machine: the polynomial under construction
    out,            \* construction machine: the combinations produced so far, or letters_not_in_comb_x
    first,          \* construction machine: what the previous iteration from begin() produced
    ctor,           \* construction machine: the Half_Idempotent_Basis constructor's loops and members
                    \* (pushed: the loop indices at each emplace_back of set_relations)
    par,            \* relation printer: the arguments of print_half_idempotent_relations, the
                    \* number of threads of the team, whether abort() was called, and the
                    \* table of what the read-only basis yields for each relation
    nexti,          \* relation printer: the next loop index the dynamic schedule hands out
    thr,            \* relation printer: each thread's position, loop index and buffered writes
    stdout          \* relation printer: the writes standard output received, in order

vars == <<kind, n, input, rel, a, decomposition, visited, pc, iteration, q, pa, last, ex, elast,
          task, cit, cit2, scratch, tpoly, out, first, ctor, par, nexti, thr, stdout>>
decompVars == <<kind, n, input, rel, a, decomposition, visited, pc, iteration, q>>
algebraVars == <<pa, last>>
expVars == <<ex, elast>>
buildVars == <<task, cit, cit2, scratch, tpoly, out, first, ctor>>
parVars == <<par, nexti, thr, stdout>>

(***************************************************************************)
(* Bounds                                                                  *)
(***************************************************************************)
MaxSymN == 3        \* largest n of the elementary-symmetric basis
MaxHibN == 2        \* largest n of the half-idempotent basis
MaxDeg == 3         \* largest degree of a monomial of an input polynomial (symmetric basis)
MaxHibDeg == 1      \* largest x-degree of a monomial of an input polynomial (half-idempotent basis)
MaxExp == 1         \* largest exponent entry kept by the algebra and exponent machines
MaxWeight == 3      \* largest sum of absolute coefficients kept by the algebra machine
MaxPow == 2         \* largest power passed to operator^
MaxBuildN == 4      \* largest n of the objects the construction machine builds

LeadCoeffs == {1, 2}     \* coefficient of the larger orbit sum an input is built from
TailCoeffs == {-1, 0, 1} \* coefficient of the smaller orbit sum (0: there is none)

(***************************************************************************)
(* Sequences and sums                                                      *)
(***************************************************************************)
ZeroVec(len) == [i \in 1..len |-> 0]

RECURSIVE SumTo(_, _)
SumTo(v, end) == IF end = 0 THEN 0 ELSE SumTo(v, end - 1) + v[end]

Abs(x) == IF x < 0 THEN -x ELSE x

\* C++ integer division truncates toward zero
CppDiv(x, y) == IF (x >= 0) = (y > 0) THEN Abs(x) \div Abs(y) ELSE -(Abs(x) \div Abs(y))

\* F(v), with v evaluated before F is entered: a loop written with it is evaluated one
\* iteration after the other
Then(v, F(_)) == CHOOSE r \in {F(x) : x \in {v}} : TRUE

(***************************************************************************)
(* Exponent types                                                          *)
(***************************************************************************)
\* Standard_Variables::degree
StdDegree(e) == SumTo(e, Len(e))

\* Standard_Variables::operator+
StdPlus(e1, e2) == [i \in 1..Len(e1) |-> e1[i] + e2[i]]

\* Elementary_Symmetric_Variables::degree
ESVDegree(e) == SumTo([i \in 1..Len(e) |-> e[i] * i], Len(e))

\* Half_Idempotent_Variables::degree summing over the whole vector, the y_i included
HIVDegreeAllEntries(e) == SumTo(e, Len(e))

\* Half_Idempotent_Variables::degree
HIVDegree(e) == SumTo(e, Len(e) \div 2)

\* Half_Idempotent_Variables::operator+ without the second loop
HIVPlusNoClamp(e1, e2) == [i \in 1..Len(e1) |-> e1[i] + e2[i]]

\* Half_Idempotent_Variables::operator+
HIVPlus(e1, e2) ==
    LET v == [i \in 1..Len(e1) |-> e1[i] + e2[i]]
    IN  [i \in 1..Len(e1) |-> IF i > Len(e1) \div 2 THEN (IF v[i] > 0 THEN 1 ELSE 0) ELSE v[i]]

\* halfidempotent::apply_monomial with the y-entry lowered by one instead of capped at 1
apply_monomial_lowering(e) ==
    [i \in 1..Len(e) |-> IF i > Len(e) \div 2 THEN (IF e[i] > 0 THEN e[i] - 1 ELSE e[i]) ELSE e[i]]

\* halfidempotent::apply_monomial: exponent[i] = std::min(exponent[i], (char)1) on the second half
apply_monomial(e) ==
    [i \in 1..Len(e) |-> IF i > Len(e) \div 2 THEN (IF e[i] < 1 THEN e[i] ELSE 1) ELSE e[i]]

\* the value type T of the exponent vector: int64_t by default, unsigned char in the demo
ByteWidth == 256
StoreT(x, uns) == IF uns THEN x % ByteWidth ELSE x

\* Half_Idempotent_Variables::operator-
HIVMinus(e1, e2, uns) ==
    LET v == [i \in 1..Len(e1) |-> StoreT(e1[i] - e2[i], uns)]
    IN  [i \in 1..Len(e1) |-> IF i > Len(e1) \div 2 THEN (IF v[i] > 0 THEN 1 ELSE 0) ELSE v[i]]

\* Twisted_Chern_Variables::operator+
TCVPlus(e1, e2) == [i \in 1..Len(e1) |-> e1[i] + e2[i]]

\* general_compute_degree
general_compute_degree(e, dims) == SumTo([i \in 1..Len(e) |-> e[i] * dims[i]], Len(e))

\* The exponent type of a polynomial: "std", "esv", "hiv" or "tcv"
ExpPlus(ty, e1, e2) ==
    CASE ty = "hiv" -> HIVPlus(e1, e2)
      [] ty = "tcv" -> TCVPlus(e1, e2)
      [] OTHER -> StdPlus(e1, e2)

\* Polynomial::compute_degree
compute_degree(ty, e, dims) ==
    CASE ty = "std" -> StdDegree(e)
      [] ty = "esv" -> ESVDegree(e)
      [] ty = "hiv" -> HIVDegree(e)
      [] OTHER -> general_compute_degree(e, dims)

\* std::vector operator< (lexicographic)
VecLess(e1, e2) ==
    \/ \E i \in 1..Len(e1) : /\ i <= Len(e2)
                             /\ e1[i] < e2[i]
                             /\ \A j \in 1..(i-1) : e1[j] = e2[j]
    \/ /\ Len(e1) < Len(e2)
       /\ \A j \in 1..Len(e1) : e1[j] = e2[j]

\* std::pair operator< on keys (degree, exponent): the order of the ordered container
KeyLess(k1, k2) == k1[1] < k2[1] \/ (~(k2[1] < k1[1]) /\ VecLess(k1[2], k2[2]))

\* operator+(pair, pair)
PairPlus(ty, k1, k2) == <<k1[1] + k2[1], ExpPlus(ty, k1[2], k2[2])>>

(***************************************************************************)
(* Polynomial container (ordered: std::map keyed by (degree, exponent))    *)
(***************************************************************************)
ZeroPoly == [k \in {} |-> 0]

\* the keys in the iteration order of the ordered container
RECURSIVE SortedKeys(_)
SortedKeys(S) ==
    IF S = {} THEN << >>
    ELSE LET m == CHOOSE k \in S : \A o \in S : o = k \/ KeyLess(k, o)
         IN  <<m>> \o SortedKeys(S \ {m})

\* Polynomial::number_of_monomials
number_of_monomials(p) == Cardinality(DOMAIN p)

\* Polynomial::insert_add_erase without the erase of a cancelled term
insert_add_keep(p, key, value) ==
    IF key \in DOMAIN p THEN [p EXCEPT ![key] = @ + value] ELSE p @@ (key :> value)

\* Polynomial::insert_add_erase
insert_add_erase(p, key, value) ==
    IF key \in DOMAIN p
    THEN IF p[key] + value = 0
         THEN [k \in (DOMAIN p) \ {key} |-> p[k]]
         ELSE [p EXCEPT ![key] = @ + value]
    ELSE p @@ (key :> value)

\* Polynomial::insert written as an accumulating insert
insert_accumulating(p, ty, e, scalar, dims) ==
    insert_add_erase(p, <<compute_degree(ty, e, dims), e>>, scalar)

\* Polynomial::insert (std::map::emplace: an existing key is left alone)
insert(p, ty, e, scalar, dims) ==
    LET key == <<compute_degree(ty, e, dims), e>>
    IN  IF key \in DOMAIN p THEN p ELSE p @@ (key :> scalar)

\* Polynomial(exp, coeff, dims, names)
MonomialPoly(ty, e, coeff, dims) == insert(ZeroPoly, ty, e, coeff, dims)

\* Polynomial(number_of_variables, coeff, dims, names)
ConstantPoly(ty, nvars, coeff, dims) == MonomialPoly(ty, ZeroVec(nvars), coeff, dims)

\* Ordered Polynomial::highest_term: std::prev(data.end())
highest_term(p) == CHOOSE k \in DOMAIN p : \A o \in DOMAIN p : o = k \/ KeyLess(o, k)

\* Unordered Polynomial::highest_term comparing degrees only
RECURSIVE highest_term_scan_degree_only(_, _, _)
highest_term_scan_degree_only(order, it, maxit) ==
    IF it > Len(order) THEN maxit
    ELSE highest_term_scan_degree_only(order, it + 1,
            IF maxit[1] < order[it][1] THEN order[it] ELSE maxit)

\* Unordered Polynomial::highest_term: linear scan in the container's iteration order
RECURSIVE highest_term_scan(_, _, _)
highest_term_scan(order, it, maxit) ==
    IF it > Len(order) THEN maxit
    ELSE highest_term_scan(order, it + 1,
            IF maxit[1] < order[it][1] \/ (maxit[1] = order[it][1] /\ VecLess(maxit[2], order[it][2]))
            THEN order[it] ELSE maxit)

highest_term_unordered(order) == highest_term_scan(order, 2, order[1])

\* Polynomial::operator+= with the sign of operator-=
RECURSIVE AddLoop(_, _, _, _, _)
AddLoop(p, b, keys, i, sign) ==
    IF i > Len(keys) THEN p
    ELSE LET rest(np) == AddLoop(np, b, keys, i + 1, sign)
         IN  Then(insert_add_erase(p, keys[i], sign * b[keys[i]]), rest)

\* Polynomial::operator+= that keeps a cancelled term with coefficient 0
RECURSIVE AddLoopKeep(_, _, _, _)
AddLoopKeep(p, b, keys, i) ==
    IF i > Len(keys) THEN p
    ELSE LET rest(np) == AddLoopKeep(np, b, keys, i + 1)
         IN  Then(insert_add_keep(p, keys[i], b[keys[i]]), rest)

PolyPlusAssignKeep(p, b) == AddLoopKeep(p, b, SortedKeys(DOMAIN b), 1)

\* Polynomial::operator+=
PolyPlusAssign(p, b) == AddLoop(p, b, SortedKeys(DOMAIN b), 1, 1)

\* Polynomial::operator-= that inserts pair.second instead of -pair.second
PolyMinusAssignSignSlip(p, b) == AddLoop(p, b, SortedKeys(DOMAIN b), 1, 1)

\* Polynomial::operator-= whose loop stops one term early: the highest term of b is not
\* subtracted
PolyMinusAssignButLast(p, b) ==
    AddLoop(p, b, SubSeq(SortedKeys(DOMAIN b), 1, Len(SortedKeys(DOMAIN b)) - 1), 1, -1)

\* Polynomial::operator-=
PolyMinusAssign(p, b) == AddLoop(p, b, SortedKeys(DOMAIN b), 1, -1)

\* Polynomial::operator+ and operator-
PolyPlus(p, b) == PolyPlusAssign(p, b)
PolyMinus(p, b) == PolyMinusAssign(p, b)

\* Polynomial::operator* whose inner statement is data.emplace: nothing is accumulated
RECURSIVE MulInnerEmplace(_, _, _, _, _, _, _)
MulInnerEmplace(ty, product, ka_i, ca, pb1, kb, j) ==
    IF j > Len(kb) THEN product
    ELSE LET key == PairPlus(ty, ka_i, kb[j])
             rest(np) == MulInnerEmplace(ty, np, ka_i, ca, pb1, kb, j + 1)
         IN  Then(IF key \in DOMAIN product THEN product ELSE product @@ (key :> ca * pb1[kb[j]]),
                  rest)

RECURSIVE MulOuterEmplace(_, _, _, _, _, _, _)
MulOuterEmplace(ty, product, pa1, ka, i, pb1, kb) ==
    IF i > Len(ka) THEN product
    ELSE LET rest(np) == MulOuterEmplace(ty, np, pa1, ka, i + 1, pb1, kb)
         IN  Then(MulInnerEmplace(ty, product, ka[i], pa1[ka[i]], pb1, kb, 1), rest)

PolyTimesEmplace(ty, p, b) ==
    MulOuterEmplace(ty, ZeroPoly, p, SortedKeys(DOMAIN p), 1, b, SortedKeys(DOMAIN b))

\* the inner loop of Polynomial::operator*: for (const auto& pairb : b.data)
RECURSIVE MulInner(_, _, _, _, _, _, _)
MulInner(ty, product, ka_i, ca, pb1, kb, j) ==
    IF j > Len(kb) THEN product
    ELSE LET rest(np) == MulInner(ty, np, ka_i, ca, pb1, kb, j + 1)
         IN  Then(insert_add_erase(product, PairPlus(ty, ka_i, kb[j]), ca * pb1[kb[j]]), rest)

\* the outer loop of Polynomial::operator*: for (const auto& paira : data)
RECURSIVE MulOuter(_, _, _, _, _, _, _)
MulOuter(ty, product, pa1, ka, i, pb1, kb) ==
    IF i > Len(ka) THEN product
    ELSE LET rest(np) == MulOuter(ty, np, pa1, ka, i + 1, pb1, kb)
         IN  Then(MulInner(ty, product, ka[i], pa1[ka[i]], pb1, kb, 1), rest)

\* Polynomial::operator*
PolyTimes(ty, p, b) ==
    MulOuter(ty, ZeroPoly, p, SortedKeys(DOMAIN p), 1, b, SortedKeys(DOMAIN b))

\* Polynomial::operator*=(const Polynomial&): *this = operator*(b)
PolyTimesAssign(ty, p, b) == PolyTimes(ty, p, b)

\* Polynomial::operator*=(scl_t) that leaves the polynomial as it is
PolyScalarTimesNothing(p, coeff) == p

\* Polynomial::operator*=(scl_t)
PolyScalarTimes(p, coeff) ==
    IF coeff = 0 THEN ZeroPoly
    ELSE IF coeff # 1 THEN [k \in DOMAIN p |-> p[k] * coeff]
    ELSE p

\* the loop of Polynomial::operator^
RECURSIVE PowLoop(_, _, _, _, _)
PowLoop(ty, prod, p, k, pw) ==
    IF k < pw
    THEN LET rest(np) == PowLoop(ty, np, p, k + 1, pw)
         IN  Then(PolyTimes(ty, prod, p), rest)
    ELSE prod

\* operator^ whose loop starts one step early: one factor too many
PolyPowerExtraFactor(ty, p, pw, nvars, dims) ==
    IF pw = 0 THEN ConstantPoly(ty, nvars, 1, dims)
    ELSE IF pw = 1 THEN p
    ELSE PowLoop(ty, p, p, 0, pw)

\* Polynomial::operator^
PolyPower(ty, p, pw, nvars, dims) ==
    IF pw = 0 THEN ConstantPoly(ty, nvars, 1, dims)
    ELSE IF pw = 1 THEN p
    ELSE PowLoop(ty, p, p, 1, pw)

\* Polynomial::operator== that never holds
PolyNeverEq(p, b) == FALSE

\* Polynomial::operator==
PolyEq(p, b) == p = b

(***************************************************************************)
(* Combination_Generator (letters are 0-based as in the source)            *)
(***************************************************************************)
SetMax(S) == CHOOSE x \in S : \A y \in S : y <= x

\* Combination_Generator::begin
CG_begin(total, choices) ==
    [generated |-> [i \in 1..choices |-> i - 1], completed |-> FALSE,
     total |-> total, choices |-> choices]

\* Combination_Generator::const_iterator::update without the inner loop that rewrites
\* generated[j] for j > i
CG_update_keeping_tail(it) ==
    LET movable == {i \in 1..it.choices : it.generated[i] < it.total - it.choices + (i - 1)}
    IN  IF movable = {} THEN [it EXCEPT !.completed = TRUE]
        ELSE [it EXCEPT !.generated[SetMax(movable)] = @ + 1]

\* Combination_Generator::const_iterator::update
CG_update(it) ==
    LET movable == {i \in 1..it.choices : it.generated[i] < it.total - it.choices + (i - 1)}
    IN  IF movable = {} THEN [it EXCEPT !.completed = TRUE]
        ELSE LET i == SetMax(movable)
             IN  [it EXCEPT !.generated =
                    [j \in 1..it.choices |-> IF j < i THEN it.generated[j]
                                             ELSE it.generated[i] + 1 + (j - i)]]

\* the loop of Combination_Generator::size
RECURSIVE SizeLoop(_, _, _, _)
SizeLoop(binom, total, i, lowchoices) ==
    IF i <= lowchoices - 1
    THEN SizeLoop(CppDiv(binom * (total - i), i + 1), total, i + 1, lowchoices)
    ELSE binom

\* Combination_Generator::size
CG_size(total, choices) ==
    LET lowchoices == IF choices > total - choices THEN total - choices ELSE choices
    IN  SizeLoop(total, total, 1, lowchoices)

\* Factory_Generator::end: only completed is set
FG_end == [completed |-> TRUE, generated |-> << >>]

\* Factory_Generator::operator!=
FG_NotEqual(it, other) ==
    IF other.completed THEN ~it.completed ELSE it.generated = other.generated

\* the range-for loop over a Combination_Generator: every element visited, in order
RECURSIVE CG_collect(_, _)
CG_collect(it, acc) ==
    IF it.completed THEN acc ELSE CG_collect(CG_update(it), Append(acc, it.generated))

AllCombinations(total, choices) == CG_collect(CG_begin(total, choices), << >>)

(***************************************************************************)
(* Symmetric_Basis                                                         *)
(***************************************************************************)
\* the loop of Symmetric_Basis::get_elementary_symmetric
RECURSIVE ESLoop(_, _, _, _)
ESLoop(nv, combs, c, poly) ==
    IF c > Len(combs) THEN poly
    ELSE LET comb == combs[c]
             mono == [j \in 1..nv |-> IF \E t \in 1..Len(comb) : comb[t] = j - 1 THEN 1 ELSE 0]
         IN  ESLoop(nv, combs, c + 1, insert(poly, "std", mono, 1, << >>))

\* Symmetric_Basis::get_elementary_symmetric
get_elementary_symmetric(nv, i) == ESLoop(nv, AllCombinations(nv, i), 1, ZeroPoly)

\* Symmetric_Basis constructor: _generators
SymGenerators(nv) == [i \in 1..nv |-> get_elementary_symmetric(nv, i)]

\* Symmetric_Basis::find_exponent pushing term[i] in both branches
SymFindExponentNoDiff(term) == [i \in 1..Len(term) |-> term[i]]

\* Symmetric_Basis::find_exponent subtracting in the other direction
SymFindExponentBackwards(term) ==
    [i \in 1..Len(term) |-> IF i = Len(term) THEN term[i] ELSE term[i + 1] - term[i]]

\* Symmetric_Basis::find_exponent
SymFindExponent(term) ==
    [i \in 1..Len(term) |-> IF i = Len(term) THEN term[i] ELSE term[i] - term[i + 1]]

(***************************************************************************)
(* Half_Idempotent_Basis                                                   *)
(***************************************************************************)
\* the loops of set_generators, for (s = 0..n) for (i = 0..n-s) with (0, 0) skipped: the
\* double indices (s, i) in generator order
HibDoubleIndices(hn) ==
    LET all == [k \in 1..((hn + 1) * (hn + 1)) |-> <<(k - 1) \div (hn + 1), (k - 1) % (hn + 1)>>]
        visited_pair(si) == si[2] <= hn - si[1] /\ ~(si[2] = 0 /\ si[1] = 0)
    IN  SelectSeq(all, visited_pair)

\* number_of_generators as set by the constructor
number_of_generators(hn) == hn + (hn * hn + hn) \div 2

\* letters_not_in_comb_x filled with every letter, those of comb_x included
LettersIgnoringComb(hn, comb, j, acc) == [k \in 1..hn |-> k - 1]

\* letters_not_in_comb_x
RECURSIVE LettersNotIn(_, _, _, _)
LettersNotIn(hn, comb, j, acc) ==
    IF j >= hn THEN acc
    ELSE LettersNotIn(hn, comb, j + 1,
            IF \E t \in 1..Len(comb) : comb[t] = j THEN acc ELSE Append(acc, j))

\* the two nested loops of create_generator
RECURSIVE CreateGeneratorLoop(_, _, _, _, _, _)
CreateGeneratorLoop(hn, cxs, cx, cys, cy, tchern) ==
    IF cx > Len(cxs) THEN tchern
    ELSE IF cy > Len(cys) THEN CreateGeneratorLoop(hn, cxs, cx + 1, cys, 1, tchern)
    ELSE LET comb_x == cxs[cx]
             comb_y == cys[cy]
             rest == LettersNotIn(hn, comb_x, 0, << >>)
             mono == [j \in 1..(2 * hn) |->
                        IF j <= hn
                        THEN (IF \E t \in 1..Len(comb_x) : comb_x[t] = j - 1 THEN 1 ELSE 0)
                        ELSE (IF \E t \in 1..Len(comb_y) : hn + rest[comb_y[t] + 1] = j - 1
                              THEN 1 ELSE 0)]
         IN  CreateGeneratorLoop(hn, cxs, cx, cys, cy + 1, insert(tchern, "hiv", mono, 1, << >>))

\* Half_Idempotent_Basis::create_generator
create_generator(hn, s, i) ==
    CreateGeneratorLoop(hn, AllCombinations(hn, s), 1, AllCombinations(hn - s, i), 1, ZeroPoly)

\* Half_Idempotent_Basis::set_generators: _generators and generator_dimensions
HibGenerators(hn) ==
    [k \in 1..Len(HibDoubleIndices(hn)) |->
        create_generator(hn, HibDoubleIndices(hn)[k][1], HibDoubleIndices(hn)[k][2])]

generator_dimensions(hn) == [k \in 1..Len(HibDoubleIndices(hn)) |-> HibDoubleIndices(hn)[k][1]]

\* the constructed Half_Idempotent_Basis objects, one per n
HibTable ==
    [hn \in 1..MaxHibN |->
        [indices |-> HibDoubleIndices(hn),
         gens |-> HibGenerators(hn),
         dims |-> generator_dimensions(hn),
         lead |-> [k \in 1..Len(HibDoubleIndices(hn)) |-> highest_term(HibGenerators(hn)[k])[2]]]]

\* the constructed Symmetric_Basis objects, one per n
SymTable == [nv \in 1..MaxSymN |-> [gens |-> SymGenerators(nv)]]

\* generator_double_index.at({j, s}): the pair transposed
index_transposed(hn, s, j) ==
    CHOOSE k \in 1..Len(HibTable[hn].indices) : HibTable[hn].indices[k] = <<j, s>>

\* generator_double_index.at({s, j}) on the constructed object
index(hn, s, j) == CHOOSE k \in 1..Len(HibTable[hn].indices) : HibTable[hn].indices[k] = <<s, j>>

SetMin(S) == CHOOSE x \in S : \A y \in S : x <= y

\* Half_Idempotent_Basis::find_exponent_recursive
RECURSIVE find_exponent_recursive(_, _, _)
find_exponent_recursive(hn, term, exponent) ==
    IF term[hn + 1] > 0
    THEN \* clear the consecutive y_i at the start
         LET consecutive_u_at_start == SetMax({c \in 1..hn : \A i \in 1..c : term[hn + i] > 0})
             us_at_start == [i \in 1..(2 * hn) |->
                                IF i > hn /\ i <= hn + consecutive_u_at_start THEN 1 ELSE 0]
         IN  find_exponent_recursive(hn, HIVMinus(term, us_at_start, FALSE),
                [exponent EXCEPT ![index(hn, 0, consecutive_u_at_start)] = 1])
    ELSE LET ys == {i \in (hn + 1)..(2 * hn) : term[i] > 0}
         IN  IF ys = {}
             THEN \* no y_i: elementary symmetric on the x_i
                  [k \in 1..Len(exponent) |->
                     IF \E i \in 1..hn : k = index(hn, i, 0)
                     THEN LET i == CHOOSE i \in 1..hn : k = index(hn, i, 0)
                          IN  exponent[k] + (IF i = hn THEN term[hn] ELSE term[i] - term[i + 1])
                     ELSE exponent[k]]
             ELSE LET hi == SetMax(ys)
                      lo == SetMin({i \in (hn + 1)..hi : \A j \in i..hi : term[j] > 0})
                      last_consecutive_u_from_end == lo - 1
                      number_consecutive_u == hi - lo + 1
                  IN  IF last_consecutive_u_from_end > hn
                      THEN LET ind == index(hn, last_consecutive_u_from_end - hn, number_consecutive_u)
                           IN  find_exponent_recursive(hn,
                                  HIVMinus(term, HibTable[hn].lead[ind], FALSE),
                                  [exponent EXCEPT ![ind] = @ + 1])
                      ELSE exponent

\* us_at_start with every y-entry set, whatever the term
UsAtStartWholeBlock(hn, c) == [i \in 1..(2 * hn) |-> IF i > hn THEN 1 ELSE 0]

\* xy_t us_at_start(2 * n) after the loop that sets its first c y-entries
UsAtStart(hn, c) == [i \in 1..(2 * hn) |-> IF i > hn /\ i <= hn + c THEN 1 ELSE 0]

\* Half_Idempotent_Basis::find_exponent_recursive, what it subtracts: per call the branch
\* taken, the term it was called on and the subtrahend (in the branch without y_i: the
\* differences added to the exponent)
RECURSIVE find_exponent_steps(_, _, _)
find_exponent_steps(hn, term, steps) ==
    IF term[hn + 1] > 0
    THEN LET c == SetMax({c \in 1..hn : \A i \in 1..c : term[hn + i] > 0})
             sub == UsAtStart(hn, c)
         IN  find_exponent_steps(hn, HIVMinus(term, sub, FALSE),
                Append(steps, [branch |-> "us_at_start", term |-> term, sub |-> sub]))
    ELSE LET ys == {i \in (hn + 1)..(2 * hn) : term[i] > 0}
         IN  IF ys = {}
             THEN Append(steps,
                     [branch |-> "x", term |-> term,
                      sub |-> [i \in 1..hn |-> IF i = hn THEN term[hn] ELSE term[i] - term[i + 1]]])
             ELSE LET hi == SetMax(ys)
                      lo == SetMin({i \in (hn + 1)..hi : \A j \in i..hi : term[j] > 0})
                  IN  IF lo - 1 > hn
                      THEN LET sub == HibTable[hn].lead[index(hn, lo - 1 - hn, hi - lo + 1)]
                           IN  find_exponent_steps(hn, HIVMinus(term, sub, FALSE),
                                  Append(steps, [branch |-> "generator", term |-> term, sub |-> sub]))
                      ELSE Append(steps, [branch |-> "none", term |-> term, sub |-> ZeroVec(2 * hn)])

\* Half_Idempotent_Basis::find_exponent with exponent filled with ones, chern_t(size, 1)
HibFindExponentFromOnes(hn, term) ==
    find_exponent_recursive(hn, term, [k \in 1..number_of_generators(hn) |-> 1])

\* Half_Idempotent_Basis::find_exponent that forgets the y-part of the term
HibFindExponentOfX(hn, term) ==
    find_exponent_recursive(hn, [i \in 1..(2 * hn) |-> IF i <= hn THEN term[i] ELSE 0],
                            ZeroVec(number_of_generators(hn)))

\* Half_Idempotent_Basis::find_exponent
HibFindExponent(hn, term) == find_exponent_recursive(hn, term, ZeroVec(number_of_generators(hn)))

\* the four nested loops of Half_Idempotent_Basis::set_relations,
\* for (s = 0..n-1) for (t = s..n-1) for (i = 1..n-s) for (j = 1..n-t): the tuples
\* (s, t, i, j) that reach the push_back, in loop order
RelationIndices(hn) ==
    LET all == [k \in 1..(hn * hn * hn * hn) |->
                  <<(k - 1) \div (hn * hn * hn), ((k - 1) \div (hn * hn)) % hn,
                    1 + (((k - 1) \div hn) % hn), 1 + ((k - 1) % hn)>>]
        pushed(x) ==
            LET s == x[1]
                t == x[2]
                i == x[3]
                j == x[4]
            IN  /\ t >= s /\ i <= hn - s /\ j <= hn - t
                /\ ~(t > s + i \/ (s = t /\ j < i) \/ (s = 0 /\ t # i))
    IN  SelectSeq(all, pushed)

\* Half_Idempotent_Basis::set_relations: the exponent of each relation, in order
relations(hn) ==
    [r \in 1..Len(RelationIndices(hn)) |->
        LET x == RelationIndices(hn)[r]
            c1 == [ZeroVec(number_of_generators(hn)) EXCEPT ![index(hn, x[1], x[3])] = @ + 1]
        IN  [c1 EXCEPT ![index(hn, x[2], x[4])] = @ + 1]]

(***************************************************************************)
(* Polynomial_Basis: the generic engine                                    *)
(***************************************************************************)
\* the basis object: generators, number of variables, exponent types, dimension table
Basis(k, nn) ==
    IF k = "sym"
    THEN [gens |-> SymTable[nn].gens, nvars |-> nn, xty |-> "std", gty |-> "esv", dims |-> << >>]
    ELSE [gens |-> HibTable[nn].gens, nvars |-> 2 * nn, xty |-> "hiv", gty |-> "tcv",
          dims |-> HibTable[nn].dims]

\* static_cast<const T*>(this)->find_exponent
FindExponent(k, nn, term) ==
    IF k = "sym" THEN SymFindExponent(term) ELSE HibFindExponent(nn, term)

\* the loop of Polynomial_Basis::compute_product
RECURSIVE ComputeProductLoop(_, _, _, _)
ComputeProductLoop(B, exponent, i, product) ==
    IF i > Len(B.gens) THEN product
    ELSE LET rest(np) == ComputeProductLoop(B, exponent, i + 1, np)
         IN  Then(IF exponent[i] # 0
                  THEN PolyTimes(B.xty, product,
                                 PolyPower(B.xty, B.gens[i], exponent[i], B.nvars, << >>))
                  ELSE product,
                  rest)

\* Polynomial_Basis::compute_product
compute_product(B, exponent) ==
    ComputeProductLoop(B, exponent, 1, ConstantPoly(B.xty, B.nvars, 1, << >>))

\* the loop of the backward operator without the scaling of each product
RECURSIVE BackwardLoopNoScale(_, _, _, _, _)
BackwardLoopNoScale(B, g, keys, i, p) ==
    IF i > Len(keys) THEN p
    ELSE LET rest(np) == BackwardLoopNoScale(B, g, keys, i + 1, np)
         IN  Then(PolyPlusAssign(p, compute_product(B, keys[i][2])), rest)

BackwardNoScale(B, g) == BackwardLoopNoScale(B, g, SortedKeys(DOMAIN g), 1, ZeroPoly)

\* the loop of the backward operator
RECURSIVE BackwardLoop(_, _, _, _, _)
BackwardLoop(B, g, keys, i, p) ==
    IF i > Len(keys) THEN p
    ELSE LET rest(np) == BackwardLoop(B, g, keys, i + 1, np)
         IN  Then(PolyPlusAssign(p, PolyScalarTimes(compute_product(B, keys[i][2]), g[keys[i]])),
                  rest)

\* the backward operator whose loop runs for the last term only
BackwardLastTermOnly(B, g) ==
    IF g = ZeroPoly THEN ZeroPoly
    ELSE BackwardLoop(B, g, SortedKeys(DOMAIN g), Len(SortedKeys(DOMAIN g)), ZeroPoly)

\* Polynomial_Basis::operator()(const Polynomial<container_2_t>&): generators -> original variables
Backward(B, g) == BackwardLoop(B, g, SortedKeys(DOMAIN g), 1, ZeroPoly)

(***************************************************************************)
(* Input polynomials: sums of orbit sums, the polynomials invariant under  *)
(* the permutation action                                                  *)
(***************************************************************************)
Perms(nn) == {f \in [1..nn -> 1..nn] : \A i, j \in 1..nn : f[i] = f[j] => i = j}

\* the action of a permutation: on x_1..x_n, or on the x-block and the y-block simultaneously
Permute(k, nn, e, f) ==
    IF k = "sym" THEN [i \in 1..nn |-> e[f[i]]]
    ELSE [i \in 1..(2 * nn) |-> IF i <= nn THEN e[f[i]] ELSE e[nn + f[i - nn]]]

Orbit(k, nn, e) == {Permute(k, nn, e, f) : f \in Perms(nn)}

Monomials(k, nn) ==
    IF k = "sym"
    THEN {e \in [1..nn -> 0..MaxDeg] : StdDegree(e) <= MaxDeg}
    ELSE {e \in [1..(2 * nn) -> 0..MaxHibDeg] :
            /\ HIVDegree(e) <= MaxHibDeg
            /\ \A i \in (nn + 1)..(2 * nn) : e[i] <= 1}

\* one monomial per orbit: the largest of the orbit
OrbitLeaders(k, nn) ==
    {e \in Monomials(k, nn) : \A o \in Orbit(k, nn, e) : o = e \/ VecLess(o, e)}

\* the polynomial c1 * orbitsum(m1) + c2 * orbitsum(m2), terms of coefficient 0 left out
InvariantPoly(k, nn, m1, c1, m2, c2) ==
    LET O1 == Orbit(k, nn, m1)
        O2 == Orbit(k, nn, m2)
        coef(e) == (IF e \in O1 THEN c1 ELSE 0) + (IF e \in O2 THEN c2 ELSE 0)
        ty == IF k = "sym" THEN "std" ELSE "hiv"
        keys == {<<compute_degree(ty, e, << >>), e>> : e \in {o \in O1 \cup O2 : coef(o) # 0}}
    IN  [key \in keys |-> coef(key[2])]

MaxN(k) == IF k = "sym" THEN MaxSymN ELSE MaxHibN

(***************************************************************************)
(* The decomposition machine: forward operator, one loop iteration per     *)
(* step, then the backward operator and the comparison of                  *)
(* print_half_idempotent_relations                                         *)
(***************************************************************************)
IdleAlgebra == pa = ZeroPoly /\ last = [op |-> "none"]
IdleExp == ex = << >> /\ elast = [op |-> "none"]
IdleBuild ==
    /\ task = [name |-> "none"] /\ cit = [completed |-> TRUE] /\ cit2 = [completed |-> TRUE]
    /\ scratch = << >> /\ tpoly = ZeroPoly /\ out = << >> /\ first = << >> /\ ctor = [pc |-> "none"]

IdlePar == par = [n |-> 0] /\ nexti = 0 /\ thr = << >> /\ stdout = << >>

\* the exponents of the monomials in e_1, ..., e_n of degree at most MaxDeg
GeneratorMonomials(nn) == {e \in [1..nn -> 0..MaxDeg] : ESVDegree(e) <= MaxDeg}

InitDecomp ==
    /\ \E k \in {"sym", "hib"} : \E nn \in 1..MaxN(k) :
         /\ kind = k
         /\ n = nn
         /\ \/ input = ZeroPoly /\ rel = ZeroPoly
            \/ \E m1, m2 \in OrbitLeaders(k, nn) : \E c1 \in LeadCoeffs : \E c2 \in TailCoeffs :
                 /\ IF c2 = 0 THEN m2 = m1 ELSE VecLess(m2, m1)
                 /\ input = InvariantPoly(k, nn, m1, c1, m2, c2)
                 /\ rel = ZeroPoly
            \/ /\ k = "sym"
               /\ \E m1, m2 \in GeneratorMonomials(nn) : \E c1 \in LeadCoeffs : \E c2 \in TailCoeffs :
                    /\ IF c2 = 0 THEN m2 = m1 ELSE VecLess(m2, m1)
                    /\ rel = insert(MonomialPoly("esv", m1, c1, << >>), "esv", m2, c2, << >>)
                    /\ input = Backward(Basis(k, nn), rel)
            \/ /\ k = "hib"
               /\ \E r \in 1..Len(relations(nn)) :
                    /\ rel = MonomialPoly("tcv", relations(nn)[r], 1, HibTable[nn].dims)
                    /\ input = Backward(Basis(k, nn), rel)
            \/ /\ k = "hib"
               /\ \E g \in 1..number_of_generators(nn) :
                    /\ rel = MonomialPoly("tcv", [ZeroVec(number_of_generators(nn)) EXCEPT ![g] = 2],
                                          1, HibTable[nn].dims)
                    /\ input = Backward(Basis(k, nn), rel)
    /\ a = input
    /\ decomposition = ZeroPoly
    /\ visited = << >>
    /\ pc = "loop"
    /\ iteration = 0
    /\ q = ZeroPoly

Init == InitDecomp /\ IdleAlgebra /\ IdleExp /\ IdleBuild /\ IdlePar

\* one iteration of while(true) in Polynomial_Basis::operator()(Polynomial<container_1_t> a)
Iterate ==
    /\ pc = "loop"
    /\ a # ZeroPoly
    /\ \E max \in {highest_term(a)} :
       \E exponent \in {FindExponent(kind, n, max[2])} :
       \E product \in {compute_product(Basis(kind, n), exponent)} :
       \E ptop \in {highest_term(product)} :
       \E coeff \in {CppDiv(a[max], product[ptop])} :
       \E scaled \in {PolyScalarTimes(product, coeff)} :
           LET B == Basis(kind, n)
           IN  /\ decomposition' = insert(decomposition, B.gty, exponent, coeff, B.dims)
               /\ visited' = Append(visited,
                                    [key |-> max, exponent |-> exponent, coeff |-> coeff,
                                     acoeff |-> a[max],
                                     plead |-> <<ptop, product[ptop]>>,
                                     top |-> IF scaled = ZeroPoly THEN << >>
                                             ELSE LET stop == highest_term(scaled)
                                                  IN  <<stop, scaled[stop]>>])
               /\ IF PolyEq(a, scaled)
                  THEN pc' = "returned" /\ a' = a
                  ELSE pc' = "loop" /\ a' = PolyMinusAssign(a, scaled)
    /\ iteration' = iteration + 1
    /\ UNCHANGED <<kind, n, input, rel, q>>
    /\ UNCHANGED <<algebraVars, expVars, buildVars, parVars>>

\* what a.highest_term() may read when a has no terms
GarbageKeys(B) == {<<0, ZeroVec(B.nvars)>>, <<1, [i \in 1..B.nvars |-> IF i = 1 THEN 1 ELSE 0]>>}

\* the first iteration on a polynomial with no terms: std::prev(data.end()) of an empty map
\* is dereferenced, which is undefined; whatever follows is collected in the position "ub"
IterateEmpty ==
    /\ pc = "loop"
    /\ a = ZeroPoly
    /\ \E g \in GarbageKeys(Basis(kind, n)) :
         visited' = Append(visited, [key |-> g, exponent |-> FindExponent(kind, n, g[2]), coeff |-> 0])
    /\ pc' = "ub"
    /\ iteration' = iteration + 1
    /\ UNCHANGED <<kind, n, input, rel, a, decomposition, q>>
    /\ UNCHANGED <<algebraVars, expVars, buildVars, parVars>>

\* the backward operator on the returned decomposition, and the comparison p != hib(q)
Expand ==
    /\ pc = "returned"
    /\ q' = Backward(Basis(kind, n), decomposition)
    /\ pc' = IF ~PolyEq(input, q') THEN "failed" ELSE "verified"
    /\ UNCHANGED <<kind, n, input, rel, a, decomposition, visited, iteration>>
    /\ UNCHANGED <<algebraVars, expVars, buildVars, parVars>>

Next == Iterate \/ IterateEmpty \/ Expand

Spec == Init /\ [][Next]_vars

\* a step of the forward loop on a polynomial that has terms, told by the position and the
\* iteration count alone: the steps of Next that satisfy it are exactly the Iterate steps,
\* and it is enabled exactly where Iterate is
LoopStep ==
    /\ pc = "loop"
    /\ a # ZeroPoly
    /\ pc' \in {"loop", "returned"}
    /\ iteration' = iteration + 1

\* the forward operator runs on its own thread of control and is never suspended forever:
\* an iteration that can be taken is taken
FairSpec == Spec /\ WF_<<pc, iteration>>(LoopStep)

(***************************************************************************)
(* Properties of the decomposition machine                                 *)
(***************************************************************************)
Expanded == pc \in {"verified", "failed"}

\* the same set of (degree, exponent) -> coefficient entries
SameEntries(p1, p2) == DOMAIN p1 = DOMAIN p2 /\ \A k \in DOMAIN p1 : p1[k] = p2[k]

\* C1: for the elementary-symmetric basis and a nonzero permutation-invariant p, expanding
\* the decomposition returned by the forward operator gives back p entry by entry.
C1_RoundTripSym ==
    (kind = "sym" /\ input # ZeroPoly /\ Expanded) => SameEntries(q, input)

C1_Witness ==
    /\ kind = "sym" /\ n >= 2 /\ Expanded
    /\ Len(visited) >= 2
    /\ \E k \in DOMAIN input : input[k] # 1

\* C2: for the half-idempotent basis and a nonzero invariant p, in particular the expansion
\* of an enumerated relation, re-expanding the decomposition of p gives back p, and the
\* comparison of print_half_idempotent_relations never takes the abort branch.
C2_RoundTripHib ==
    (kind = "hib" /\ input # ZeroPoly /\ Expanded) => (SameEntries(q, input) /\ pc # "failed")

C2_Witness ==
    /\ kind = "hib" /\ n >= 2 /\ pc = "verified"
    /\ rel # ZeroPoly
    /\ Len(visited) >= 2

\* C3: on a nonzero permutation-invariant input the while(true) loop of the forward
\* operator eventually reaches its return statement.
C3_ForwardTerminates ==
    (pc = "loop" /\ input # ZeroPoly) ~> (pc = "returned")

C3_Witness ==
    /\ pc = "returned"
    /\ Len(visited) >= 3
    /\ kind = "hib"

\* C4: the forward operator on the polynomial with no terms returns the polynomial with
\* no terms, and neither highest_term nor find_exponent is called.
C4_ZeroInputReturnsZero ==
    input = ZeroPoly => (pc # "ub" /\ visited = << >> /\ decomposition = ZeroPoly)

\* (degree, exponent) order written out: lower degree, or the same degree and a
\* lexicographically smaller exponent
TermBelow(k1, k2) ==
    \/ k1[1] < k2[1]
    \/ /\ k1[1] = k2[1]
       /\ \E i \in 1..Len(k1[2]) : k1[2][i] < k2[2][i] /\ \A j \in 1..(i - 1) : k1[2][j] = k2[2][j]

\* C5 as stated: the degrees of the highest terms taken at the start of successive
\* iterations are strictly decreasing.
C5_DegreesStrictlyDecrease ==
    input # ZeroPoly =>
        \A i \in 1..(Len(visited) - 1) : visited[i + 1].key[1] < visited[i].key[1]

\* C5 amended: the highest terms taken at the start of successive iterations are strictly
\* decreasing in the (degree, exponent) order, and their degrees never increase.
C5_HighestTermsStrictlyDecrease ==
    input # ZeroPoly =>
        \A i \in 1..(Len(visited) - 1) :
            /\ TermBelow(visited[i + 1].key, visited[i].key)
            /\ visited[i + 1].key[1] <= visited[i].key[1]

C5_Witness ==
    /\ pc = "returned"
    /\ Len(visited) >= 2
    /\ visited[1].key[1] = visited[2].key[1]

(***************************************************************************)
(* The algebra machine: one Polynomial over Half_Idempotent_Variables in   *)
(* x, y (y*y = y) and the methods called on it, one call at a time: the    *)
(* call computes its result, the return stores it in p. The second operand *)
(* of a binary method is another object.                                   *)
(***************************************************************************)
IdleDecomp ==
    /\ kind = "none" /\ n = 0 /\ input = ZeroPoly /\ rel = ZeroPoly /\ a = ZeroPoly
    /\ decomposition = ZeroPoly /\ visited = << >> /\ pc = "idle" /\ iteration = 0
    /\ q = ZeroPoly

\* the exponent vectors [a_1, a_2] of x^a_1 y^a_2 the machine keeps
AlgExps == {e \in [1..2 -> 0..MaxExp] : e[2] <= 1}

\* the exponent vectors of 1, x, y, xy
OperandExps == [1..2 -> 0..1]

InsertCoeffs == {-1, 1, 2}
Scalars == {-1, 0, 1, 2}

\* what the second operand can be: built by Polynomial(exp, coeff) and at most one insert
Operands ==
    {insert(MonomialPoly("hiv", e1, c1, << >>), "hiv", e2, c2, << >>) :
        e1 \in OperandExps, c1 \in {-1, 1}, e2 \in OperandExps, c2 \in {-1, 1}}

RECURSIVE WeightOver(_, _)
WeightOver(p, keys) ==
    IF keys = {} THEN 0
    ELSE LET k == CHOOSE k \in keys : TRUE IN Abs(p[k]) + WeightOver(p, keys \ {k})

\* the part of the polynomials the machine keeps
InBounds(p) ==
    /\ \A k \in DOMAIN p : \A i \in 1..Len(k[2]) : k[2][i] <= MaxExp
    /\ WeightOver(p, DOMAIN p) <= MaxWeight

\* Polynomial(number_of_variables): no terms
InitPoly == IdleDecomp /\ IdleExp /\ IdleBuild /\ IdlePar /\ pa = ZeroPoly /\ last = [op |-> "none"]

\* a call on p that computes r
PolyStep(r, record) ==
    /\ last.op = "none"
    /\ InBounds(r)
    /\ last' = record
    /\ UNCHANGED <<pa, decompVars, expVars, buildVars, parVars>>

\* p.insert(e, c)
Insert ==
    \E e \in AlgExps : \E c \in InsertCoeffs :
        LET r == insert(pa, "hiv", e, c, << >>)
        IN  PolyStep(r, [op |-> "insert", lhs |-> pa, e |-> e, c |-> c, res |-> r])

\* p += b
PlusAssign ==
    \E b \in Operands :
        LET r == PolyPlusAssign(pa, b)
        IN  PolyStep(r, [op |-> "+=", lhs |-> pa, rhs |-> b, res |-> r])

\* p -= b
MinusAssign ==
    \E b \in Operands :
        LET r == PolyMinusAssign(pa, b)
        IN  PolyStep(r, [op |-> "-=", lhs |-> pa, rhs |-> b, res |-> r])

\* p = p + b
Plus ==
    \E b \in Operands :
        LET r == PolyPlus(pa, b)
        IN  PolyStep(r, [op |-> "+", lhs |-> pa, rhs |-> b, res |-> r])

\* p = p - b
Minus ==
    \E b \in Operands :
        LET r == PolyMinus(pa, b)
        IN  PolyStep(r, [op |-> "-", lhs |-> pa, rhs |-> b, res |-> r])

\* p = p * b
Times ==
    \E b \in Operands :
        LET r == PolyTimes("hiv", pa, b)
        IN  PolyStep(r, [op |-> "*", lhs |-> pa, rhs |-> b, res |-> r])

\* p *= b
TimesAssign ==
    \E b \in Operands :
        LET r == PolyTimesAssign("hiv", pa, b)
        IN  PolyStep(r, [op |-> "*=", lhs |-> pa, rhs |-> b, res |-> r])

\* p *= c
ScalarTimesAssign ==
    \E c \in Scalars :
        LET r == PolyScalarTimes(pa, c)
        IN  PolyStep(r, [op |-> "*=scl", lhs |-> pa, c |-> c, res |-> r])

\* p = p ^ pw
Power ==
    \E pw \in -1..MaxPow :
        LET r == PolyPower("hiv", pa, pw, 2, << >>)
        IN  PolyStep(r, [op |-> "^", lhs |-> pa, pw |-> pw, res |-> r])

\* the orders in which a hash container may iterate over the keys S
IterationOrders(S) ==
    {f \in [1..Cardinality(S) -> S] : \A i, j \in 1..Cardinality(S) : f[i] = f[j] => i = j}

\* p.highest_term(), in the ordered container and in an unordered container holding the
\* same terms
HighestTerm ==
    /\ pa # ZeroPoly
    /\ \E order \in IterationOrders(DOMAIN pa) :
         PolyStep(pa, [op |-> "highest_term", lhs |-> pa, order |-> order, res |-> pa,
                       ordered |-> highest_term(pa),
                       unordered |-> highest_term_unordered(order)])

\* the call returns; p holds its result
Return ==
    /\ last.op # "none"
    /\ pa' = last.res
    /\ last' = [op |-> "none"]
    /\ UNCHANGED <<decompVars, expVars, buildVars, parVars>>

NextPoly ==
    \/ Insert
    \/ PlusAssign
    \/ MinusAssign
    \/ Plus
    \/ Minus
    \/ Times
    \/ TimesAssign
    \/ ScalarTimesAssign
    \/ Power
    \/ HighestTerm
    \/ Return

SpecPoly == InitPoly /\ [][NextPoly]_vars

(***************************************************************************)
(* Properties of the algebra machine                                       *)
(***************************************************************************)
NoZeroCoefficient(p) == \A k \in DOMAIN p : p[k] # 0

\* C6: starting from the polynomial with no terms and operands built by the constructor and
\* insert with nonzero coefficients, after any sequence of insert, +=, -=, +, -, *, *=,
\* *= by a scalar and ^ no stored entry has coefficient 0.
C6_NoZeroCoefficient ==
    /\ \A b \in Operands : NoZeroCoefficient(b)
    /\ NoZeroCoefficient(pa)
    /\ (last.op # "none" => NoZeroCoefficient(last.res))

\* a term of the left operand met its negative and was erased
C6_Witness ==
    /\ last.op \in {"+=", "-=", "+", "-"}
    /\ last.res # ZeroPoly
    /\ \E k \in DOMAIN last.lhs \cap DOMAIN last.rhs : k \notin DOMAIN last.res

\* the key insert computes for its exponent
InsertedKey == <<SumTo(last.e, Len(last.e) \div 2), last.e>>

SameElsewhere(p1, p2, key) ==
    /\ DOMAIN p1 \ {key} = DOMAIN p2 \ {key}
    /\ \A k \in DOMAIN p1 \ {key} : p1[k] = p2[k]

\* C7 as stated: insert adds a new term when the exponent is absent and, when it is present,
\* adds coeff to the stored coefficient and removes the entry if the sum is zero.
C7_InsertAccumulates ==
    last.op = "insert" =>
        /\ SameElsewhere(last.res, last.lhs, InsertedKey)
        /\ IF InsertedKey \notin DOMAIN last.lhs
           THEN InsertedKey \in DOMAIN last.res /\ last.res[InsertedKey] = last.c
           ELSE IF last.lhs[InsertedKey] + last.c = 0
                THEN InsertedKey \notin DOMAIN last.res
                ELSE InsertedKey \in DOMAIN last.res /\ last.res[InsertedKey] = last.lhs[InsertedKey] + last.c

\* C7 amended: insert adds a new term when the exponent is absent and leaves the polynomial
\* as it was when the exponent is present.
C7_InsertKeepsPresent ==
    last.op = "insert" =>
        /\ SameElsewhere(last.res, last.lhs, InsertedKey)
        /\ InsertedKey \in DOMAIN last.res
        /\ last.res[InsertedKey] = (IF InsertedKey \in DOMAIN last.lhs THEN last.lhs[InsertedKey] ELSE last.c)

\* insert on an exponent that is present, with a coefficient that would cancel it
C7_Witness ==
    /\ last.op = "insert"
    /\ InsertedKey \in DOMAIN last.lhs
    /\ last.lhs[InsertedKey] + last.c = 0

\* C8: highest_term on a polynomial with terms returns the one term above all others in
\* the order (degree first, then exponent), and the linear scan of the unordered container
\* returns the same term whatever the iteration order.
C8_HighestTermAgrees ==
    last.op = "highest_term" =>
        /\ last.ordered \in DOMAIN last.lhs
        /\ \A k \in DOMAIN last.lhs : k = last.ordered \/ TermBelow(k, last.ordered)
        /\ last.unordered = last.ordered

\* the scan starts on a term that is not the highest and meets a term of the same degree
C8_Witness ==
    /\ last.op = "highest_term"
    /\ last.order[1] # last.ordered
    /\ \E k \in DOMAIN last.lhs : k # last.ordered /\ k[1] = last.ordered[1]

\* the sum of two exponent vectors in the quotient ring: pointwise, second half at most 1
ClampedSum(ea, eb) ==
    [i \in 1..Len(ea) |->
        IF i > Len(ea) \div 2 /\ ea[i] + eb[i] > 1 THEN 1 ELSE ea[i] + eb[i]]

\* the pairs of terms of p1 and p2 whose exponents sum to e
PairsTo(p1, p2, e) ==
    {pr \in (DOMAIN p1) \X (DOMAIN p2) : ClampedSum(pr[1][2], pr[2][2]) = e}

RECURSIVE SumOfProducts(_, _, _)
SumOfProducts(p1, p2, pairs) ==
    IF pairs = {} THEN 0
    ELSE LET pr == CHOOSE pr \in pairs : TRUE
         IN  p1[pr[1]] * p2[pr[2]] + SumOfProducts(p1, p2, pairs \ {pr})

\* the coefficient a polynomial stores for exponent e, 0 when it stores none
CoefficientOf(p, e) ==
    IF \E k \in DOMAIN p : k[2] = e THEN p[CHOOSE k \in DOMAIN p : k[2] = e] ELSE 0

\* C9: the coefficient of e in a * b is the sum of ca * cb over the pairs of terms whose
\* exponents add up to e (pointwise, the y-block clamped to 1), and an exponent whose sum
\* is 0 is not stored.
C9_ProductIsConvolution ==
    last.op \in {"*", "*="} =>
        /\ \A k \in DOMAIN last.res :
             /\ last.res[k] # 0
             /\ PairsTo(last.lhs, last.rhs, k[2]) # {}
             /\ \A o \in DOMAIN last.res : o[2] = k[2] => o = k
        /\ \A e \in [1..2 -> 0..(2 * MaxExp)] :
             CoefficientOf(last.res, e) = SumOfProducts(last.lhs, last.rhs, PairsTo(last.lhs, last.rhs, e))

\* a product of two binomials in which two pairs of terms cancel
C9_Witness ==
    /\ last.op = "*"
    /\ number_of_monomials(last.lhs) = 2
    /\ number_of_monomials(last.rhs) = 2
    /\ \E e \in AlgExps :
         /\ Cardinality(PairsTo(last.lhs, last.rhs, e)) = 2
         /\ CoefficientOf(last.res, e) = 0

(***************************************************************************)
(* The exponent machine: one Half_Idempotent_Variables vector and the      *)
(* operators applied to it                                                 *)
(***************************************************************************)
\* exponent vectors of length 2 * nn the machine keeps, the y-block 0 or 1
ExpVectors(nn) ==
    {e \in [1..(2 * nn) -> 0..MaxExp] : \A i \in (nn + 1)..(2 * nn) : e[i] <= 1}

InitExp ==
    /\ IdleDecomp /\ IdleAlgebra /\ IdleBuild /\ IdlePar
    /\ \E nn \in 1..MaxHibN : ex \in ExpVectors(nn)
    /\ elast = [op |-> "none"]

\* ex + b is called
ExpAdd ==
    /\ elast.op = "none"
    /\ ex \in ExpVectors(Len(ex) \div 2)
    /\ \E b \in ExpVectors(Len(ex) \div 2) :
         /\ \A i \in 1..(Len(ex) \div 2) : ex[i] + b[i] <= MaxExp
         /\ elast' = [op |-> "+", a |-> ex, b |-> b, res |-> HIVPlus(ex, b)]
    /\ UNCHANGED <<ex, decompVars, algebraVars, buildVars, parVars>>

\* ex - b is called, for a signed and for an unsigned value type; b need not be below ex
ExpSub ==
    /\ elast.op = "none"
    /\ ex \in ExpVectors(Len(ex) \div 2)
    /\ \E b \in ExpVectors(Len(ex) \div 2) : \E uns \in BOOLEAN :
         elast' = [op |-> "-", a |-> ex, b |-> b, uns |-> uns, res |-> HIVMinus(ex, b, uns)]
    /\ UNCHANGED <<ex, decompVars, algebraVars, buildVars, parVars>>

\* the vectors that have the x-block of e and any y-block with entries up to MaxExp + 1:
\* monomials before the relation y*y = y is applied
Unreduced(e) ==
    {v \in [1..Len(e) -> 0..(MaxExp + 1)] : \A i \in 1..(Len(e) \div 2) : v[i] = e[i]}

\* the relation is applied to a monomial, by halfidempotent::apply_monomial and by adding the
\* zero exponent; each is applied a second time to its own result
ExpClamp ==
    /\ elast.op = "none"
    /\ \E v \in Unreduced(ex) :
         LET zero == ZeroVec(Len(v))
         IN  elast' = [op |-> "clamp", a |-> v, b |-> zero,
                       res |-> apply_monomial(v),
                       again |-> apply_monomial(apply_monomial(v)),
                       plus |-> HIVPlus(v, zero),
                       plusagain |-> HIVPlus(HIVPlus(v, zero), zero)]
    /\ UNCHANGED <<ex, decompVars, algebraVars, buildVars, parVars>>

\* the operator returns; ex holds its result
ExpReturn ==
    /\ elast.op # "none"
    /\ ex' = elast.res
    /\ elast' = [op |-> "none"]
    /\ UNCHANGED <<decompVars, algebraVars, buildVars, parVars>>

NextExp == ExpAdd \/ ExpSub \/ ExpClamp \/ ExpReturn

SpecExp == InitExp /\ [][NextExp]_vars

\* C10: the result of operator+ and of operator- has every y-block entry 0 or 1; for
\* operator+ the x-block is the pointwise sum and a y-entry is 1 exactly when an operand
\* is nonzero there; for operator- with b <= a componentwise the x-block is the pointwise
\* difference and a y-entry is |a_i - b_i|.
C10_HalfIdempotentExponents ==
    elast.op \in {"+", "-"} =>
        LET nn == Len(elast.res) \div 2
            xs == 1..nn
            ys == (nn + 1)..(2 * nn)
        IN  /\ Len(elast.res) = Len(elast.a)
            /\ \A i \in ys : elast.res[i] \in {0, 1}
            /\ elast.op = "+" =>
                 /\ \A i \in xs : elast.res[i] = elast.a[i] + elast.b[i]
                 /\ \A i \in ys : (elast.res[i] = 1) <=> (elast.a[i] # 0 \/ elast.b[i] # 0)
            /\ (elast.op = "-" /\ \A i \in xs \cup ys : elast.b[i] <= elast.a[i]) =>
                 /\ \A i \in xs : elast.res[i] = elast.a[i] - elast.b[i]
                 /\ \A i \in ys : elast.res[i] = Abs(elast.a[i] - elast.b[i])

\* a sum of two vectors of length 4 or more that both hold the same y_i, with an x_j in it
C10_Witness ==
    /\ elast.op = "+"
    /\ Len(elast.res) >= 4
    /\ \E i \in (Len(elast.res) \div 2 + 1)..Len(elast.res) : elast.a[i] = 1 /\ elast.b[i] = 1
    /\ \E i \in 1..(Len(elast.res) \div 2) : elast.res[i] > 0

\* C11: applying the y-block clamp (halfidempotent::apply_monomial, or adding the zero
\* exponent with Half_Idempotent_Variables::operator+) twice gives the same vector as
\* applying it once, the two ways give the same vector, and the x-block is never changed.
C11_ClampIdempotent ==
    elast.op = "clamp" =>
        /\ elast.again = elast.res
        /\ elast.plusagain = elast.plus
        /\ elast.plus = elast.res
        /\ Len(elast.res) = Len(elast.a)
        /\ \A i \in 1..(Len(elast.a) \div 2) : elast.res[i] = elast.a[i]
        /\ \A i \in (Len(elast.a) \div 2 + 1)..Len(elast.a) :
             elast.res[i] = (IF elast.a[i] = 0 THEN 0 ELSE 1)

\* a monomial with a y_i squared or higher, a y_j absent and an x_k present is clamped
C11_Witness ==
    /\ elast.op = "clamp"
    /\ \E i \in (Len(elast.a) \div 2 + 1)..Len(elast.a) : elast.a[i] >= 2 /\ elast.res[i] = 1
    /\ \E i \in (Len(elast.a) \div 2 + 1)..Len(elast.a) : elast.a[i] = 0
    /\ \E i \in 1..(Len(elast.a) \div 2) : elast.a[i] > 0

(***************************************************************************)
(* The construction machine: the routines that build the generators and    *)
(* the relations, one loop iteration per step                              *)
(***************************************************************************)
IdleMachines == IdleDecomp /\ IdleAlgebra /\ IdleExp

\* for (const auto j : comb) mono[offset + j] = value, the letters read through a table
RECURSIVE WriteSlots(_, _, _, _, _, _)
WriteSlots(m, comb, t, offset, letters, value) ==
    IF t > Len(comb) THEN m
    ELSE WriteSlots([m EXCEPT ![offset + letters[comb[t] + 1] + 1] = value],
                    comb, t + 1, offset, letters, value)

\* the letters 0..total-1 in order: a table that reads every letter as itself
Letters(total) == [j \in 1..total |-> j - 1]

\* the second inner loop (mono[j] = 0) stopping one letter early
ClearSlotsButLast(m, comb, offset, letters) ==
    WriteSlots(m, SubSeq(comb, 1, Len(comb) - 1), 1, offset, letters, 0)

\* the second inner loop of a combination's iteration: for (j : comb) mono[..] = 0
ClearSlots(m, comb, offset, letters) == WriteSlots(m, comb, 1, offset, letters, 0)

\* the first inner loop of a combination's iteration: for (j : comb) mono[..] = 1
SetSlots(m, comb, offset, letters) == WriteSlots(m, comb, 1, offset, letters, 1)

\* get_elementary_symmetric(i) is entered: poly, mono, c and the begin() of the range-for
StartElementary ==
    \E nv \in 1..MaxBuildN : \E i \in 1..nv :
        /\ task = [name |-> "get_elementary_symmetric", nv |-> nv, i |-> i]
        /\ cit = CG_begin(nv, i)
        /\ cit2 = [completed |-> TRUE]
        /\ scratch = ZeroVec(nv)
        /\ tpoly = ZeroPoly
        /\ out = << >> /\ first = << >> /\ ctor = [pc |-> "none"]

\* one iteration of for (const auto& comb : c) in get_elementary_symmetric
ElementaryStep ==
    /\ task.name = "get_elementary_symmetric"
    /\ ~cit.completed
    /\ LET comb == cit.generated
           set == SetSlots(scratch, comb, 0, Letters(task.nv))
       IN  /\ tpoly' = insert(tpoly, "std", set, 1, << >>)
           /\ scratch' = ClearSlots(set, comb, 0, Letters(task.nv))
    /\ cit' = CG_update(cit)
    /\ UNCHANGED <<task, cit2, out, first, ctor, decompVars, algebraVars, expVars, parVars>>

\* create_generator(s, i) is entered: tchern, mono, c_x, c_y and the begin() of the outer
\* range-for
StartTwistedChern ==
    \E hn \in 1..MaxBuildN : \E s \in 0..hn : \E i \in 0..(hn - s) :
        /\ ~(s = 0 /\ i = 0)
        /\ task = [name |-> "create_generator", nv |-> hn, s |-> s, i |-> i, at |-> "comb_x"]
        /\ cit = CG_begin(hn, s)
        /\ cit2 = [completed |-> TRUE]
        /\ scratch = ZeroVec(2 * hn)
        /\ tpoly = ZeroPoly
        /\ out = << >> /\ first = << >> /\ ctor = [pc |-> "none"]

\* the head of an iteration of for (comb_x : c_x): the x-slots are set, letters_not_in_comb_x
\* is filled and the inner range-for begins
TwistedChernEnter ==
    /\ task.name = "create_generator" /\ task.at = "comb_x"
    /\ ~cit.completed
    /\ scratch' = SetSlots(scratch, cit.generated, 0, Letters(task.nv))
    /\ cit2' = CG_begin(task.nv - task.s, task.i)
    /\ out' = LettersNotIn(task.nv, cit.generated, 0, << >>)
    /\ task' = [task EXCEPT !.at = "comb_y"]
    /\ UNCHANGED <<cit, tpoly, first, ctor, decompVars, algebraVars, expVars, parVars>>

\* one iteration of for (comb_y : c_y)
TwistedChernInner ==
    /\ task.name = "create_generator" /\ task.at = "comb_y"
    /\ ~cit2.completed
    /\ LET set == SetSlots(scratch, cit2.generated, task.nv, out)
       IN  /\ tpoly' = insert(tpoly, "hiv", set, 1, << >>)
           /\ scratch' = ClearSlots(set, cit2.generated, task.nv, out)
    /\ cit2' = CG_update(cit2)
    /\ UNCHANGED <<task, cit, out, first, ctor, decompVars, algebraVars, expVars, parVars>>

\* the tail of an iteration of for (comb_x : c_x): the x-slots are cleared, ++ on the iterator
TwistedChernLeave ==
    /\ task.name = "create_generator" /\ task.at = "comb_y"
    /\ cit2.completed
    /\ scratch' = ClearSlots(scratch, cit.generated, 0, Letters(task.nv))
    /\ cit' = CG_update(cit)
    /\ out' = << >>
    /\ task' = [task EXCEPT !.at = "comb_x"]
    /\ UNCHANGED <<cit2, tpoly, first, ctor, decompVars, algebraVars, expVars, parVars>>

\* std::map operator[]: the mapped value, 0 for a key that is not there (and then inserted)
Lookup(map, key) == IF key \in DOMAIN map THEN map[key] ELSE 0
Touch(map, key) == IF key \in DOMAIN map THEN map ELSE map @@ (key :> 0)

\* the names pushed by set_generators, "c_" + to_string(s) as <<"c", s>> and so on,
\* with the first two branches exchanged
GeneratorNameExchanged(s, i) ==
    IF i = 0 THEN <<"a", s>> ELSE IF s = 0 THEN <<"c", i>> ELSE <<"c", s, i>>

\* the names pushed by set_generators, "c_" + to_string(s) as <<"c", s>> and so on
GeneratorName(s, i) ==
    IF i = 0 THEN <<"c", s>> ELSE IF s = 0 THEN <<"a", i>> ELSE <<"c", s, i>>

\* Half_Idempotent_Basis(n) is entered: the members are empty, set_generators starts its loops
StartConstructor ==
    \E hn \in 1..MaxBuildN :
        /\ task = [name |-> "Half_Idempotent_Basis", nv |-> hn]
        /\ ctor = [pc |-> "set_generators", s |-> 0, t |-> 0, i |-> 0, j |-> 0, ind |-> 0,
                   generators |-> << >>, generator_names |-> << >>,
                   generator_dimensions |-> << >>, generator_double_index |-> ZeroPoly,
                   relations |-> << >>, pushed |-> << >>]
        /\ cit = [completed |-> TRUE] /\ cit2 = [completed |-> TRUE]
        /\ scratch = << >> /\ tpoly = ZeroPoly /\ out = << >> /\ first = << >>

\* one iteration of for (i = 0; i <= n - s; i++) in set_generators, the increments of i and
\* s included; after the last one set_relations starts its loops
SetGeneratorsStep ==
    /\ task.name = "Half_Idempotent_Basis" /\ ctor.pc = "set_generators"
    /\ LET hn == task.nv
           s == ctor.s
           i == ctor.i
           body == IF i = 0 /\ s = 0 THEN ctor
                   ELSE [ctor EXCEPT
                           !.generators = Append(@, create_generator(hn, s, i)),
                           !.generator_names = Append(@, GeneratorName(s, i)),
                           !.generator_dimensions = Append(@, s),
                           !.generator_double_index = [k \in DOMAIN @ \cup {<<s, i>>} |->
                                                        IF k = <<s, i>> THEN ctor.ind ELSE @[k]],
                           !.ind = @ + 1]
       IN  ctor' = IF i + 1 <= hn - s THEN [body EXCEPT !.i = i + 1]
                   ELSE IF s + 1 <= hn THEN [body EXCEPT !.s = s + 1, !.i = 0]
                   ELSE [body EXCEPT !.pc = "set_relations", !.s = 0, !.t = 0, !.i = 1, !.j = 1]
    /\ UNCHANGED <<task, cit, cit2, scratch, tpoly, out, first, decompVars, algebraVars, expVars, parVars>>

\* the skip condition of set_relations without its first disjunct t > s + i
SkipRelationNoContainment(s, t, i, j) == (s = t /\ j < i) \/ (s = 0 /\ t # i)

\* the skip condition of set_relations without its second disjunct s == t && j < i
SkipRelationNoSymmetric(s, t, i, j) == t > s + i \/ (s = 0 /\ t # i)

\* the skip condition of set_relations
SkipRelation(s, t, i, j) == t > s + i \/ (s = t /\ j < i) \/ (s = 0 /\ t # i)

\* one iteration of the innermost loop of set_relations, the increments of j, i, t and s
\* included; after the last one the object is constructed
SetRelationsStep ==
    /\ task.name = "Half_Idempotent_Basis" /\ ctor.pc = "set_relations"
    /\ LET hn == task.nv
           s == ctor.s
           t == ctor.t
           i == ctor.i
           j == ctor.j
           map1 == Touch(ctor.generator_double_index, <<s, i>>)
           comb1 == [ZeroVec(number_of_generators(hn)) EXCEPT ![Lookup(map1, <<s, i>>) + 1] = @ + 1]
           map2 == Touch(map1, <<t, j>>)
           comb == [comb1 EXCEPT ![Lookup(map2, <<t, j>>) + 1] = @ + 1]
           body == IF SkipRelation(s, t, i, j) THEN ctor
                   ELSE [ctor EXCEPT
                           !.generator_double_index = map2,
                           !.relations = Append(@, MonomialPoly("tcv", comb, 1, ctor.generator_dimensions)),
                           !.pushed = Append(@, <<s, t, i, j>>)]
       IN  ctor' = IF j + 1 <= hn - t THEN [body EXCEPT !.j = j + 1]
                   ELSE IF i + 1 <= hn - s THEN [body EXCEPT !.i = i + 1, !.j = 1]
                   ELSE IF t + 1 < hn THEN [body EXCEPT !.t = t + 1, !.i = 1, !.j = 1]
                   ELSE IF s + 1 < hn THEN [body EXCEPT !.s = s + 1, !.t = s + 1, !.i = 1, !.j = 1]
                   ELSE [body EXCEPT !.pc = "constructed"]
    /\ UNCHANGED <<task, cit, cit2, scratch, tpoly, out, first, decompVars, algebraVars, expVars, parVars>>

\* Combination_Generator(total, choices) is constructed and begin() is called
StartCombinations ==
    \E total \in 0..MaxBuildN : \E choices \in 0..total :
        /\ task = [name |-> "Combination_Generator", total |-> total, choices |-> choices,
                   round |-> 1, size |-> -1]
        /\ cit = CG_begin(total, choices)
        /\ cit2 = [completed |-> TRUE]
        /\ scratch = << >> /\ tpoly = ZeroPoly /\ out = << >> /\ first = << >>
        /\ ctor = [pc |-> "none"]

\* size() is called on the generator before the iteration (size -1: not called yet)
CombinationSize ==
    /\ task.name = "Combination_Generator"
    /\ task.size = -1
    /\ out = << >> /\ task.round = 1
    /\ task' = [task EXCEPT !.size = CG_size(task.total, task.choices)]
    /\ UNCHANGED <<cit, cit2, scratch, tpoly, out, first, ctor, decompVars, algebraVars, expVars, parVars>>

\* it != end() holds: *it is read, then ++it
CombinationStep ==
    /\ task.name = "Combination_Generator"
    /\ FG_NotEqual(cit, FG_end)
    /\ out' = Append(out, cit.generated)
    /\ cit' = CG_update(cit)
    /\ UNCHANGED <<task, cit2, scratch, tpoly, first, ctor, decompVars, algebraVars, expVars, parVars>>

\* the iteration is over; begin() is called once more on the same generator
CombinationRestart ==
    /\ task.name = "Combination_Generator"
    /\ ~FG_NotEqual(cit, FG_end)
    /\ task.round = 1
    /\ first' = out
    /\ out' = << >>
    /\ cit' = CG_begin(task.total, task.choices)
    /\ task' = [task EXCEPT !.round = 2]
    /\ UNCHANGED <<cit2, scratch, tpoly, ctor, decompVars, algebraVars, expVars, parVars>>

InitBuild ==
    /\ IdleMachines /\ IdlePar
    /\ \/ StartElementary
       \/ StartTwistedChern
       \/ StartConstructor
       \/ StartCombinations

NextBuild ==
    \/ ElementaryStep
    \/ TwistedChernEnter
    \/ TwistedChernInner
    \/ TwistedChernLeave
    \/ SetGeneratorsStep
    \/ SetRelationsStep
    \/ CombinationSize
    \/ CombinationStep
    \/ CombinationRestart

SpecBuild == InitBuild /\ [][NextBuild]_vars

(***************************************************************************)
(* The relation printer: print_half_idempotent_relations with its loop run  *)
(* by a team of threads (omp parallel for, schedule(dynamic))               *)
(***************************************************************************)
TeamSizes == {1, 2}     \* the sizes of the team of threads (omp_get_max_threads())

\* the loop of Polynomial_Basis::operator()(Polynomial<container_1_t> a), run to its return;
\* a has at least one term
RECURSIVE ForwardLoop(_, _, _, _)
ForwardLoop(k, nn, poly, dec) ==
    LET B == Basis(k, nn)
        body(max) ==
            LET exponent == FindExponent(k, nn, max[2])
                withProduct(product) ==
                    LET coeff == CppDiv(poly[max], product[highest_term(product)])
                        withScaled(scaled) ==
                            LET rest(ndec) ==
                                    IF PolyEq(poly, scaled) THEN ndec
                                    ELSE LET next(npoly) == ForwardLoop(k, nn, npoly, ndec)
                                         IN  Then(PolyMinusAssign(poly, scaled), next)
                            IN  Then(insert(dec, B.gty, exponent, coeff, B.dims), rest)
                    IN  Then(PolyScalarTimes(product, coeff), withScaled)
            IN  Then(compute_product(B, exponent), withProduct)
    IN  Then(highest_term(poly), body)

\* Polynomial_Basis::operator()(Polynomial<container_1_t> a) on a polynomial with terms
Forward(k, nn, poly) == ForwardLoop(k, nn, poly, ZeroPoly)

\* one insertion into a stream: a literal, or a printed polynomial
Literal(str) == [s |-> str, v |-> ZeroPoly]
Printed(poly) == [s |-> "polynomial", v |-> poly]

\* what one iteration inserts into its std::stringstream ss
BufferOf(prt, verify, verify_verbose, r, p, qq) ==
    (IF prt THEN <<Printed(r), Literal(" = "), Printed(qq), Literal("\n")>> ELSE << >>)
    \o (IF verify
        THEN <<Literal("Verified!")>>
             \o (IF verify_verbose
                 THEN <<Literal("In x, y variables both LHS and RHS are : "), Printed(p)>>
                 ELSE << >>)
             \o <<Literal("\n")>>
        ELSE << >>)

\* rel = hib.relations()[i], p = hib(rel), q = hib(p) and hib(q) for every loop index i:
\* values that depend on n and i alone
IterationTable(nn) ==
    LET B == Basis("hib", nn)
        entry(i) ==
            LET r == MonomialPoly("tcv", relations(nn)[i], 1, HibTable[nn].dims)
                withP(p) ==
                    LET withQ(qq) == [rel |-> r, p |-> p, q |-> qq, back |-> Backward(B, qq)]
                    IN  Then(Forward("hib", nn, p), withQ)
            IN  Then(Backward(B, r), withP)
    IN  SubSeq([i \in 1..Len(relations(nn)) |-> entry(i)], 1, Len(relations(nn)))

\* the locals of iteration i: rel, p, q, the comparison p != hib(q), and the buffer ss
IterationLocals(P, i) ==
    LET loc == P.table[i]
    IN  [rel |-> loc.rel, p |-> loc.p, q |-> loc.q,
         failed |-> P.verify /\ ~PolyEq(loc.p, loc.back),
         ss |-> BufferOf(P.print, P.verify, P.verify_verbose, loc.rel, loc.p, loc.q)]

\* a variant that inserts into std::cout directly, one write per insertion
WritesPerInsertion(ss) == [k \in 1..Len(ss) |-> <<ss[k]>>]

\* std::cout << ss.str(): the writes standard output receives for a buffer
WritesOf(ss) == <<ss>>

\* schedule(dynamic): the index handed out after i
HandOut(i) == i + 1

Threads == 1..par.threads

\* HIB hib(n) has been constructed and the team of threads stands before the loop
InitPar ==
    /\ IdleMachines /\ IdleBuild
    /\ \E nn \in 1..MaxHibN : \E tbl \in {IterationTable(nn)} :
       \E th \in TeamSizes : \E prt, ver, verb \in BOOLEAN :
         /\ par = [n |-> nn, print |-> prt, verify |-> ver, verify_verbose |-> verb,
                   threads |-> th, aborted |-> FALSE, table |-> tbl]
         /\ thr = [t \in 1..th |-> [pc |-> "idle", i |-> 0, writes |-> << >>]]
    /\ nexti = 1
    /\ stdout = << >>

\* a thread is handed the next index and runs the body up to std::cout << ss.str();
\* when verification fails it writes to std::cerr and calls abort()
ParIterate(t) ==
    /\ ~par.aborted
    /\ thr[t].pc = "idle"
    /\ nexti <= Len(par.table)
    /\ nexti' = HandOut(nexti)
    /\ LET loc == IterationLocals(par, nexti)
       IN  IF loc.failed
           THEN /\ par' = [par EXCEPT !.aborted = TRUE]
                /\ thr' = [thr EXCEPT ![t] = [pc |-> "aborted", i |-> nexti, writes |-> << >>]]
           ELSE /\ par' = par
                /\ thr' = [thr EXCEPT ![t] =
                               IF WritesOf(loc.ss) = << >>
                               THEN [pc |-> "idle", i |-> 0, writes |-> << >>]
                               ELSE [pc |-> "write", i |-> nexti, writes |-> WritesOf(loc.ss)]]
    /\ UNCHANGED <<stdout, decompVars, algebraVars, expVars, buildVars>>

\* standard output receives one write of the thread
ParWrite(t) ==
    /\ ~par.aborted
    /\ thr[t].pc = "write"
    /\ stdout' = Append(stdout, [i |-> thr[t].i, text |-> Head(thr[t].writes)])
    /\ thr' = [thr EXCEPT ![t] = IF Len(@.writes) = 1
                                 THEN [pc |-> "idle", i |-> 0, writes |-> << >>]
                                 ELSE [@ EXCEPT !.writes = Tail(@)]]
    /\ UNCHANGED <<par, nexti, decompVars, algebraVars, expVars, buildVars>>

\* no index is left: the thread leaves the loop
ParLeave(t) ==
    /\ ~par.aborted
    /\ thr[t].pc = "idle"
    /\ nexti > Len(par.table)
    /\ thr' = [thr EXCEPT ![t] = [pc |-> "left", i |-> 0, writes |-> << >>]]
    /\ UNCHANGED <<par, nexti, stdout, decompVars, algebraVars, expVars, buildVars>>

NextPar ==
    \/ \E t \in Threads : ParIterate(t)
    \/ \E t \in Threads : ParWrite(t)
    \/ \E t \in Threads : ParLeave(t)

SpecPar == InitPar /\ [][NextPar]_vars

(***************************************************************************)
(* Properties of the construction machine                                  *)
(***************************************************************************)
\* n choose k by Pascal's rule
RECURSIVE Binomial(_, _)
Binomial(nn, k) ==
    IF k < 0 \/ k > nn THEN 0
    ELSE IF k = 0 \/ k = nn THEN 1
    ELSE Binomial(nn - 1, k - 1) + Binomial(nn - 1, k)

\* how many slots in from..to of e hold 1
OnesIn(e, from, to) == Cardinality({i \in from..to : e[i] = 1})

\* C12: the generator e_i built for n variables has exactly C(n, i) terms, every coefficient
\* is 1, its exponents are exactly the 0/1 vectors of length n with exactly i ones, and the
\* scratch monomial is all-zero again after each combination.
C12_ElementaryGenerators ==
    task.name = "get_elementary_symmetric" =>
        /\ scratch = ZeroVec(task.nv)
        /\ \A k \in DOMAIN tpoly : tpoly[k] = 1
        /\ cit.completed =>
             /\ number_of_monomials(tpoly) = Binomial(task.nv, task.i)
             /\ {k[2] : k \in DOMAIN tpoly} =
                    {e \in [1..task.nv -> {0, 1}] : OnesIn(e, 1, task.nv) = task.i}
             /\ \A k \in DOMAIN tpoly : k[1] = task.i
             /\ task.nv <= MaxSymN => tpoly = SymTable[task.nv].gens[task.i]

\* e_2 on three or more variables is complete
C12_Witness ==
    /\ task.name = "get_elementary_symmetric"
    /\ cit.completed
    /\ task.nv >= 3 /\ task.i = 2
    /\ number_of_monomials(tpoly) >= 3

\* the monomial x_1..x_s * y_{s+1}..y_{s+j} on n pairs of variables
LeadMonomial(hn, s, j) ==
    [k \in 1..(2 * hn) |-> IF k <= s \/ (k > hn + s /\ k <= hn + s + j) THEN 1 ELSE 0]

\* the generator is returned: both range-for loops are over
TwistedChernBuilt == task.name = "create_generator" /\ task.at = "comb_x" /\ cit.completed

\* C13: create_generator(s, j) is the orbit sum of x_1..x_s*y_{s+1}..y_{s+j}: exactly
\* C(n,s)*C(n-s,j) terms, all with coefficient 1, one for each s-subset S (x-slots 1) and
\* j-subset T disjoint from S (y-slots 1), all other slots 0; it is invariant under every
\* simultaneous permutation of the x- and y-blocks.
C13_TwistedChernGenerators ==
    task.name = "create_generator" =>
        /\ \A k \in DOMAIN tpoly : tpoly[k] = 1
        /\ TwistedChernBuilt =>
             LET hn == task.nv
                 exps == {k[2] : k \in DOMAIN tpoly}
             IN  /\ number_of_monomials(tpoly) = Binomial(hn, task.s) * Binomial(hn - task.s, task.i)
                 /\ exps = {e \in [1..(2 * hn) -> {0, 1}] :
                              /\ OnesIn(e, 1, hn) = task.s
                              /\ OnesIn(e, hn + 1, 2 * hn) = task.i
                              /\ \A k \in 1..hn : ~(e[k] = 1 /\ e[hn + k] = 1)}
                 /\ exps = Orbit("hib", hn, LeadMonomial(hn, task.s, task.i))
                 /\ \A f \in Perms(hn) : \A e \in exps : Permute("hib", hn, e, f) \in exps
                 /\ \A k \in DOMAIN tpoly : k[1] = task.s
                 /\ tpoly = create_generator(hn, task.s, task.i)
                 /\ scratch = ZeroVec(2 * hn)

\* a generator with both x and y letters on three or more pairs is complete
C13_Witness ==
    /\ TwistedChernBuilt
    /\ task.nv >= 3 /\ task.s >= 1 /\ task.i >= 2
    /\ number_of_monomials(tpoly) >= 3

\* set_generators is over
GeneratorsSet == task.name = "Half_Idempotent_Basis" /\ ctor.pc # "set_generators"

\* the generator, name and dimension stored for the index pair (s, i)
StoredAt(s, i) ==
    LET k == ctor.generator_double_index[<<s, i>>] + 1
    IN  [poly |-> ctor.generators[k], name |-> ctor.generator_names[k],
         dim |-> ctor.generator_dimensions[k]]

\* the sum of all products of k distinct variables of one block (x: block 0, y: block 1) on
\* hn pairs of variables, as a polynomial keyed by (x-degree, exponent)
BlockElementary(hn, k, block) ==
    LET exps == {e \in [1..(2 * hn) -> {0, 1}] :
                    /\ OnesIn(e, block * hn + 1, block * hn + hn) = k
                    /\ OnesIn(e, (1 - block) * hn + 1, (1 - block) * hn + hn) = 0}
    IN  [key \in {<<(1 - block) * k, e>> : e \in exps} |-> 1]

\* C14 as stated: the generator with index pair (0, j) is the elementary symmetric polynomial
\* of degree j in the x-variables alone and is named c_j, and the generator with index pair
\* (s, 0) involves only y-variables, has degree 0 and is named a_s.
C14_IndexPairsAsStated ==
    GeneratorsSet =>
        \A k \in 1..task.nv :
            /\ StoredAt(0, k).poly = BlockElementary(task.nv, k, 0)
            /\ StoredAt(0, k).name = <<"c", k>>
            /\ StoredAt(0, k).dim = k
            /\ StoredAt(k, 0).poly = BlockElementary(task.nv, k, 1)
            /\ StoredAt(k, 0).name = <<"a", k>>
            /\ StoredAt(k, 0).dim = 0

\* C14 amended: the generator with index pair (s, 0) is the elementary symmetric polynomial
\* of degree s in the x-variables alone and is named c_s, and the generator with index pair
\* (0, j) involves only y-variables (the sum of the products of j distinct y), has degree 0
\* and is named a_j.
C14_IndexPairs ==
    GeneratorsSet =>
        \A k \in 1..task.nv :
            /\ StoredAt(k, 0).poly = BlockElementary(task.nv, k, 0)
            /\ StoredAt(k, 0).name = <<"c", k>>
            /\ StoredAt(k, 0).dim = k
            /\ StoredAt(0, k).poly = BlockElementary(task.nv, k, 1)
            /\ StoredAt(0, k).name = <<"a", k>>
            /\ StoredAt(0, k).dim = 0

\* set_generators is over for three or more pairs of variables
C14_Witness ==
    /\ GeneratorsSet
    /\ task.nv >= 3
    /\ Len(ctor.generators) = number_of_generators(task.nv)

\* the constructor has returned
Constructed == task.name = "Half_Idempotent_Basis" /\ ctor.pc = "constructed"

\* the single-term polynomial over the generator-index space for the product of the
\* generators with index pairs g1 and g2, of coefficient 1, keyed by its degree: a generator
\* (s, i) has degree s
ProductMonomial(g1, g2) ==
    LET k1 == ctor.generator_double_index[g1] + 1
        k2 == ctor.generator_double_index[g2] + 1
        e == [k \in 1..Len(ctor.generators) |->
                (IF k = k1 THEN 1 ELSE 0) + (IF k = k2 THEN 1 ELSE 0)]
    IN  [key \in {<<g1[1] + g2[1], e>>} |-> 1]

\* the index pairs (s, i) of the twisted generators c_{s,i}: s >= 1, i >= 1, s + i <= n
TwistedPairs(hn) == {g \in (1..hn) \X (1..hn) : g[1] + g[2] <= hn}

\* (a) a_s * c_{s,i}
RelationsOfA(hn) == {ProductMonomial(<<0, g[1]>>, g) : g \in TwistedPairs(hn)}

\* (b) c_{s,i} * c_{t,j} with s <= t <= s + i
RelationsOfC(hn) ==
    {ProductMonomial(gg[1], gg[2]) :
        gg \in {pr \in TwistedPairs(hn) \X TwistedPairs(hn) :
                    pr[1][1] <= pr[2][1] /\ pr[2][1] <= pr[1][1] + pr[1][2]}}

PassingTuples(hn) ==
    {x \in (0..(hn - 1)) \X (0..(hn - 1)) \X (1..hn) \X (1..hn) :
        /\ x[1] <= x[2] /\ x[3] <= hn - x[1] /\ x[4] <= hn - x[2]
        /\ ~(x[2] > x[1] + x[3])
        /\ ~(x[1] = x[2] /\ x[4] < x[3])
        /\ ~(x[1] = 0 /\ x[2] # x[3])}

\* C16: no two entries of relations() are the same generator monomial, so the number of
\* enumerated relations equals the number of index tuples (s, t, i, j) with
\* 0 <= s <= t < n, 1 <= i <= n - s, 1 <= j <= n - t that pass the skip condition.
C16_RelationsDistinct ==
    /\ task.name = "Half_Idempotent_Basis" =>
         \A r1, r2 \in 1..Len(ctor.relations) : ctor.relations[r1] = ctor.relations[r2] => r1 = r2
    /\ Constructed =>
         /\ Len(ctor.relations) = Cardinality(PassingTuples(task.nv))
         /\ Cardinality({ctor.relations[r] : r \in 1..Len(ctor.relations)}) =
                Cardinality(PassingTuples(task.nv))

\* an object with three or more pairs of variables is constructed and, for some s = t,
\* both c_{s,i} * c_{s,j} with i < j listed and its mirror image skipped
C16_Witness ==
    /\ Constructed
    /\ task.nv >= 3
    /\ \E r \in 1..Len(ctor.pushed) :
         ctor.pushed[r][1] = ctor.pushed[r][2] /\ ctor.pushed[r][3] < ctor.pushed[r][4]

(***************************************************************************)
(* Scenarios of the decomposition machine                                  *)
(***************************************************************************)
\* the forward operator has returned
Returned == pc \in {"returned", "verified", "failed"}

\* x1^2*x2 + x1^2*x3 + x2^2*x1 + x2^2*x3 + x3^2*x1 + x3^2*x2
StaircaseInput ==
    [key \in {<<3, e>> : e \in {v \in [1..3 -> 0..2] : {v[1], v[2], v[3]} = {0, 1, 2}}} |-> 1]

\* e_1*e_2 - 3*e_3
StaircaseDecomposition ==
    [key \in {<<3, <<1, 1, 0>>>>, <<3, <<0, 0, 1>>>>} |-> IF key[2] = <<1, 1, 0>> THEN 1 ELSE -3]

\* C17: for n = 3 the forward decomposition of the orbit sum of x_1^2*x_2 records first the
\* generator exponent [1,1,0], the staircase difference of the leading exponent [2,1,0],
\* yields e_1*e_2 - 3*e_3, and the backward expansion of that reproduces the six-term
\* polynomial exactly.
C17_StaircaseExample ==
    (kind = "sym" /\ n = 3 /\ input = StaircaseInput) =>
        /\ pc # "ub"
        /\ Len(visited) >= 1 =>
             /\ visited[1].key = <<3, <<2, 1, 0>>>>
             /\ visited[1].exponent = <<1, 1, 0>>
        /\ Returned => decomposition = StaircaseDecomposition
        /\ Expanded => (pc = "verified" /\ q = StaircaseInput)

C17_Witness ==
    /\ kind = "sym" /\ n = 3 /\ input = StaircaseInput
    /\ pc = "verified"
    /\ Len(visited) = 2

\* C18: for n = 1 the only generators of the half-idempotent basis are a_1 = y_1 and
\* c_1 = x_1, and expanding the generator monomial a_1^2 and decomposing the result yields
\* the single term a_1 with coefficient 1.
C18_SmallestHalfIdempotent ==
    (kind = "hib" /\ n = 1) =>
        /\ Len(Basis(kind, n).gens) = 2
        /\ HibTable[1].indices = <<(<<0, 1>>), (<<1, 0>>)>>
        /\ GeneratorName(0, 1) = <<"a", 1>> /\ GeneratorName(1, 0) = <<"c", 1>>
        /\ Basis(kind, n).gens[1] = [key \in {<<0, <<0, 1>>>>} |-> 1]
        /\ Basis(kind, n).gens[2] = [key \in {<<1, <<1, 0>>>>} |-> 1]
        /\ rel = [key \in {<<0, <<2, 0>>>>} |-> 1] =>
             /\ input = [key \in {<<0, <<0, 1>>>>} |-> 1]
             /\ pc # "ub"
             /\ Len(visited) >= 1 => decomposition = [key \in {<<0, <<1, 0>>>>} |-> 1]
             /\ Expanded => pc = "verified"

C18_Witness ==
    /\ kind = "hib" /\ n = 1
    /\ rel = [key \in {<<0, <<2, 0>>>>} |-> 1]
    /\ Returned
    /\ Len(visited) = 1

\* y_1 + y_2 on two pairs of variables
SumOfIdempotents == [key \in {<<0, <<0, 0, 1, 0>>>>, <<0, <<0, 0, 0, 1>>>>} |-> 1]

\* C19: for n = 2 the forward decomposition of y_1 + y_2 yields the single-term generator
\* polynomial a_1 with coefficient 1, and the backward expansion of that result returns
\* exactly y_1 + y_2.
C19_SumOfIdempotents ==
    (kind = "hib" /\ n = 2 /\ input = SumOfIdempotents) =>
        /\ pc # "ub"
        /\ HibTable[2].indices[1] = <<0, 1>>
        /\ GeneratorName(0, 1) = <<"a", 1>>
        /\ Len(visited) >= 1 => decomposition = [key \in {<<0, <<1, 0, 0, 0, 0>>>>} |-> 1]
        /\ Len(visited) <= 1
        /\ Expanded => (pc = "verified" /\ q = SumOfIdempotents)

C19_Witness ==
    /\ kind = "hib" /\ n = 2 /\ input = SumOfIdempotents
    /\ rel = ZeroPoly
    /\ pc = "verified"

\* the letters of a combination
LetterSet(comb) == {comb[t] : t \in 1..Len(comb)}

\* lexicographically smaller, for sequences of the same length
LexBelow(c1, c2) ==
    \E t \in 1..Len(c1) : c1[t] < c2[t] /\ \A u \in 1..(t - 1) : c1[u] = c2[u]

\* C20: iterating Combination_Generator(n, k), 0 <= k <= n, from begin() with operator++
\* until the iterator equals end() produces every k-subset of {0..n-1} exactly once, each
\* as a strictly ascending sequence, in lexicographic order starting from [0,1,..,k-1],
\* and then sets completed; a fresh begin() restarts the same sequence.
C20_CombinationsEnumerated ==
    task.name = "Combination_Generator" =>
        LET nn == task.total
            k == task.choices
        IN  /\ \A r \in 1..Len(out) :
                 /\ Len(out[r]) = k
                 /\ \A t \in 1..k : out[r][t] \in 0..(nn - 1)
                 /\ \A t \in 1..(k - 1) : out[r][t] < out[r][t + 1]
            /\ \A r \in 1..(Len(out) - 1) : LexBelow(out[r], out[r + 1])
            /\ Len(out) >= 1 => out[1] = [t \in 1..k |-> t - 1]
            /\ cit.completed <=> Len(out) = Binomial(nn, k)
            /\ Len(out) <= Binomial(nn, k)
            /\ cit.completed =>
                 /\ {LetterSet(out[r]) : r \in 1..Len(out)} =
                        {S \in SUBSET (0..(nn - 1)) : Cardinality(S) = k}
                 /\ Cardinality({out[r] : r \in 1..Len(out)}) = Len(out)
            /\ task.round = 2 =>
                 /\ Len(out) <= Len(first)
                 /\ out = SubSeq(first, 1, Len(out))
                 /\ cit.completed => out = first

\* the second iteration over the 2-subsets of four or more letters is over
C20_Witness ==
    /\ task.name = "Combination_Generator"
    /\ task.round = 2
    /\ cit.completed
    /\ task.total >= 4 /\ task.choices = 2
    /\ Len(out) >= 6

\* C21: size() returns the binomial coefficient C(total, choices) for every
\* 0 <= choices <= total, which is the number of elements the iteration produces.
C21_SizeIsBinomial ==
    (task.name = "Combination_Generator" /\ task.size # -1) =>
        /\ task.size = Binomial(task.total, task.choices)
        /\ cit.completed => task.size = Len(out)

(***************************************************************************)
(* C22                                                                     *)
(***************************************************************************)
\* the loop of print_half_idempotent_relations run by one thread in index order: the
\* buffers written, in order
RECURSIVE SequentialLoop(_, _, _)
SequentialLoop(P, i, written) ==
    IF i > Len(P.table) THEN written
    ELSE SequentialLoop(P, i + 1, Append(written, IterationLocals(P, i).ss))

SequentialRun(P) == SequentialLoop(P, 1, << >>)

RECURSIVE BagOfSeq(_)
BagOfSeq(sq) == IF sq = << >> THEN EmptyBag ELSE BagOfSeq(Tail(sq)) (+) SetToBag({Head(sq)})

RECURSIVE BagOfTexts(_, _)
BagOfTexts(sq, k) ==
    IF k > Len(sq) THEN EmptyBag
    ELSE BagOfTexts(sq, k + 1) (+) SetToBag({sq[k].text})

LoopLeft == par.n # 0 /\ \A t \in Threads : thr[t].pc = "left"

RECURSIVE Copies(_, _)
Copies(p, k) == IF k = 1 THEN p ELSE PolyTimes("hiv", Copies(p, k - 1), p)

\* the constant polynomial 1 in the two variables of the algebra machine
One == [key \in {<<0, <<0, 0>>>>} |-> 1]

\* C23: a^0 is the constant polynomial 1 in the same number of variables, a^1 is a, a^p for
\* p >= 2 is the product of p copies of a under operator*, and a^p for p < 0 is a.
C23_PowerIsRepeatedProduct ==
    last.op = "^" =>
        /\ last.pw = 0 => last.res = One
        /\ last.pw = 1 => last.res = last.lhs
        /\ last.pw >= 2 => last.res = Copies(last.lhs, last.pw)
        /\ last.pw < 0 => last.res = last.lhs

\* y - 1 (or 1 - y) has been squared: the result has the two terms of 1 - y
C23_Witness ==
    /\ last.op = "^"
    /\ last.pw = 2
    /\ Cardinality(DOMAIN last.lhs) = 2
    /\ Cardinality(DOMAIN last.res) = 2
    /\ last.res # last.lhs

(***************************************************************************)
(* C24                                                                     *)
(***************************************************************************)
\* the iterations whose product has been subtracted from a: all of them while the loop
\* runs, all but the last after the return (a == product leaves a as it is)
Subtracted == IF pc = "loop" THEN 1..Len(visited) ELSE 1..(Len(visited) - 1)

\* C24: in every iteration on a nonzero invariant input coeff * product has the highest
\* term of a, exponent and coefficient; after a -= product that term is absent from a and
\* every term of a is below it in the (degree, exponent) order; a term removed in an earlier
\* iteration is absent in every later state.
C24_LeadingTermProgress ==
    input # ZeroPoly =>
        /\ \A i \in 1..Len(visited) :
             visited[i].top = <<visited[i].key, visited[i].acoeff>>
        /\ \A i \in Subtracted :
             /\ visited[i].key \notin DOMAIN a
             /\ \A k \in DOMAIN a : TermBelow(k, visited[i].key)

\* three products have been subtracted, the first with a coefficient other than 1, and
\* terms are left
C24_Witness ==
    /\ pc = "loop"
    /\ Len(visited) >= 3
    /\ visited[1].coeff = 2
    /\ a # ZeroPoly

(***************************************************************************)
(* C25, C26                                                                *)
(***************************************************************************)
WeaklyDecreasing(e) == \A i \in 1..(Len(e) - 1) : e[i] >= e[i + 1]

\* C25: for a weakly decreasing exponent a_1 >= ... >= a_n >= 0, Symmetric_Basis's
\* find_exponent returns [a_1 - a_2, ..., a_(n-1) - a_n, a_n], no entry negative, and the
\* highest term of compute_product of that tuple has exponent a and coefficient 1.
C25_StaircaseExponent ==
    (kind = "sym" /\ input # ZeroPoly) =>
        \A i \in 1..Len(visited) :
            LET e == visited[i].key[2]
                g == visited[i].exponent
            IN  WeaklyDecreasing(e) =>
                    /\ Len(g) = n
                    /\ \A j \in 1..n : g[j] >= 0
                    /\ \A j \in 1..n : g[j] = IF j = n THEN e[n] ELSE e[j] - e[j + 1]
                    /\ visited[i].plead = <<visited[i].key, 1>>

\* n = 3: in a second or later iteration the exponent [1, 1, 1] has been passed and
\* find_exponent returned [0, 0, 1]
C25_Witness ==
    /\ kind = "sym" /\ n = 3
    /\ \E i \in 2..Len(visited) :
         /\ visited[i].key[2] = <<1, 1, 1>>
         /\ visited[i].exponent = <<0, 0, 1>>
         /\ WeaklyDecreasing(visited[i].key[2])

\* C26: for the highest term t of a nonzero invariant polynomial over the half-idempotent
\* variables, the highest term of compute_product(find_exponent(t)) has exponent t, and no
\* other highest term of an invariant polynomial with the same n is sent by find_exponent
\* to the same tuple.
C26_HalfIdempotentLeadingTerm ==
    (kind = "hib" /\ input # ZeroPoly) =>
        /\ \A i \in 1..Len(visited) : visited[i].plead[1] = visited[i].key
        /\ Len(visited) >= 1 =>
             LET v == visited[Len(visited)]
             IN  \A t \in OrbitLeaders("hib", n) :
                     HibFindExponent(n, t) = v.exponent => t = v.key[2]

\* n = 2: the term x_1 y_2 (below x_1 y_1 in its degree) has been passed, and a twisted
\* generator recorded
C26_Witness ==
    /\ kind = "hib" /\ n = 2
    /\ \E i \in 1..Len(visited) :
         /\ visited[i].key[2] = <<1, 0, 0, 1>>
         /\ visited[i].plead[1] = visited[i].key

(***************************************************************************)
(* C27                                                                     *)
(***************************************************************************)
\* the number of y-entries of a term that are set
YBits(term) == Cardinality({i \in (Len(term) \div 2 + 1)..Len(term) : term[i] > 0})

\* C27: when find_exponent_recursive runs on the highest term of a nonzero invariant
\* polynomial over the half-idempotent variables, every subtrahend (us_at_start, or the
\* leading exponent of the generator (s, j)) is componentwise at most the term, every
\* recursive call is on a term with fewer y-entries set, the recursion ends in the branch
\* without y_i, and no difference term[i-1] - term[i] added there is negative.
C27_SubtractionsStayInRange ==
    (kind = "hib" /\ input # ZeroPoly) =>
        \A i \in 1..Len(visited) :
            LET st == find_exponent_steps(n, visited[i].key[2], << >>)
            IN  /\ \A k \in 1..(Len(st) - 1) :
                     /\ st[k].branch \in {"us_at_start", "generator"}
                     /\ \A j \in 1..(2 * n) : st[k].sub[j] <= st[k].term[j]
                     /\ YBits(st[k + 1].term) < YBits(st[k].term)
                /\ st[Len(st)].branch = "x"
                /\ \A j \in 1..n : st[Len(st)].sub[j] >= 0

\* find_exponent_recursive has run on a term from which the leading exponent of a
\* twisted generator was subtracted and whose x-part then gave a positive difference
C27_Witness ==
    /\ kind = "hib"
    /\ \E i \in 1..Len(visited) :
         LET st == find_exponent_steps(n, visited[i].key[2], << >>)
         IN  /\ Len(st) >= 2
             /\ \E k \in 1..Len(st) : st[k].branch = "generator"
             /\ \E j \in 1..n : st[Len(st)].sub[j] > 0

(***************************************************************************)
(* C28                                                                     *)
(***************************************************************************)
\* every key (d, e) of p has d = degree of e, and no exponent occurs under two degrees
StoredDegree(ty, p, dims) ==
    /\ \A k \in DOMAIN p : k[1] = compute_degree(ty, k[2], dims)
    /\ \A k1, k2 \in DOMAIN p : k1[2] = k2[2] => k1 = k2

\* the key insert computes for the exponent e
InsertKey(ty, e, dims) == CHOOSE k \in DOMAIN insert(ZeroPoly, ty, e, 1, dims) : TRUE

\* C28: every key (d, e) of a polynomial reached by insert, +=, -=, +, -, *, *= and ^ has
\* d = degree of e (the sum of the x-block for the half-idempotent exponents), so no
\* exponent occurs under two degrees; the key operator* forms by pairwise addition is the
\* key insert computes for the sum of the exponents, also when the two exponents are read
\* as exponents of generators whose degree is the weighted sum with a table of dimensions.
C28_StoredDegree ==
    /\ StoredDegree("hiv", pa, << >>)
    /\ last.op # "none" => StoredDegree("hiv", last.res, << >>)
    /\ last.op \in {"*", "*="} =>
         \A k1 \in DOMAIN last.lhs : \A k2 \in DOMAIN last.rhs :
             /\ PairPlus("hiv", k1, k2) = InsertKey("hiv", HIVPlus(k1[2], k2[2]), << >>)
             /\ \A ty \in {"esv", "tcv"} :
                  LET dims == HibTable[1].dims
                  IN  PairPlus(ty, InsertKey(ty, k1[2], dims), InsertKey(ty, k2[2], dims))
                          = InsertKey(ty, ExpPlus(ty, k1[2], k2[2]), dims)

\* a polynomial with the term y has been multiplied by one with the term y: the sum of the
\* exponents is clamped to y, of degree 0
C28_Witness ==
    /\ last.op \in {"*", "*="}
    /\ <<0, <<0, 1>>>> \in DOMAIN last.lhs
    /\ <<0, <<0, 1>>>> \in DOMAIN last.rhs
    /\ <<0, <<0, 1>>>> \in DOMAIN last.res
    /\ Cardinality(DOMAIN last.res) >= 2

(***************************************************************************)
(* C29                                                                     *)
(***************************************************************************)
\* C29: during one forward decomposition of a nonzero invariant polynomial no generator
\* tuple is recorded twice, so decomposition.insert never meets a key that is present: the
\* decomposition has exactly one term per iteration, the tuple of that iteration with the
\* coefficient of that iteration.
C29_NoTupleTwice ==
    input # ZeroPoly =>
        /\ \A i, j \in 1..Len(visited) : visited[i].exponent = visited[j].exponent => i = j
        /\ Cardinality(DOMAIN decomposition) = Len(visited)
        /\ \A i \in 1..Len(visited) :
             \E k \in DOMAIN decomposition :
                 k[2] = visited[i].exponent /\ decomposition[k] = visited[i].coeff

\* a decomposition over the half-idempotent basis has returned after three or more
\* iterations, one of them with a negative coefficient
C29_Witness ==
    /\ pc = "returned"
    /\ kind = "hib"
    /\ Len(visited) >= 3
    /\ \E i \in 1..Len(visited) : visited[i].coeff < 0
    /\ Cardinality(DOMAIN decomposition) = Len(visited)

(***************************************************************************)
(* C30                                                                     *)
(***************************************************************************)
\* C30: for a nonzero polynomial q in e_1, ..., e_n, the forward operator applied to the
\* backward expansion of q returns q, term for term.
C30_DecomposeExpand ==
    (kind = "sym" /\ rel # ZeroPoly /\ Returned) => PolyEq(decomposition, rel)

\* n = 3: 2 * e_1 * e_2 - e_3 was expanded and decomposed again
C30_Witness ==
    /\ kind = "sym" /\ n = 3
    /\ Returned
    /\ rel = [key \in {<<3, <<1, 1, 0>>>>, <<3, <<0, 0, 1>>>>} |->
                 IF key[2] = <<1, 1, 0>> THEN 2 ELSE -1]
    /\ decomposition = rel
    /\ Len(visited) = 2

====
